---- MODULE Spec2Model ----
(***************************************************************************)
(* A model of the front end of the Slice compiler (slicec): the diagnostic *)
(* sink, the lookup tables of the AST, and the validators.  Every          *)
(* component is a group of variables with its own initial condition, its   *)
(* own actions and its own specification; a specification leaves the       *)
(* variables of the other components at their initial values.              *)
(***************************************************************************)
EXTENDS Integers, Sequences, FiniteSets, TLC

VARIABLES
    \* ErrorReporter (src/src/error.rs)
    errors, error_count, warning_count, treat_warnings_as_errors,
    reported, lastCall,
    \* Ast (src/src/ast.rs): the two lookup tables, and the last lookup
    type_lookup_table, entity_lookup_table,
    lookupCall, lookupName, lookupScope, lookupResult,
    \* check_for_redefinition (src/src/validators/identifiers.rs): the
    \* identifiers it is given, what it reported, and whether it has run
    identifiers, idReports, idChecked,
    \* Ast::add_module (src/src/ast.rs) and validate_module_contents
    \* (src/src/validators/mod.rs): the nodes of the AST in source order, the
    \* entries HashMap::insert has displaced, the diagnostics of the
    \* validation, and the stage of the compilation
    ast, replaced, diagnostics, stage, first_run,
    \* ValidatorVisitor::check_dictionary_key_type
    \* (src/src/validators/dictionary.rs): the key type of the dictionary,
    \* what the check returned (<<>> before the check) and what it reported
    key_type, keyResult, keyReports,
    \* The encoding patcher: the compilation mode of the file, the types of
    \* the fields of its compact struct, the supported encodings patched
    \* into the struct (None before the patch) and what the patcher reported
    compilation_mode, fields, struct_supported_encodings, encodingReports,
    \* The cycle detector: the named types of the program, whether the
    \* detector has run, and the cycles it reported
    types, cyclesDetected, cycleReports,
    \* The preprocessor: the symbols defined on the command line, the lines
    \* of the file, the place of the next line, the stack of the conditional
    \* regions, the spans of the tokens emitted, the errors, and whether the
    \* end of the file has been handled
    definitions, lines, position, live_stack, emitted, ppErrors, atEnd,
    \* construct_enumerator and construct_enum
    \* (src/src/parsers/slice/grammar.rs): parser.last_enumerator_value,
    \* the enumerators constructed for the enum that is being parsed, the
    \* enum constructed last, and the number of enums constructed
    last_enumerator_value, enumerators, last_enum, enum_count,
    \* parse_tag_value and parse_compact_id_value
    \* (src/src/parsers/slice/grammar.rs): the integers they were given with
    \* the values they returned, in the order of the calls, and
    \* parser.diagnostics
    parsed_integers, parser_diagnostics,
    \* SliceParser::module_start and module_def (src/src/parser/slice.rs):
    \* the module declaration that is parsed, the scope before it, the
    \* current scope of the parser, the definitions of the body parsed so
    \* far, how far the parse is, and the module module_def returned
    module_decl, scope_before, current_scope, body, module_phase, module_result,
    \* validate_compilation_data (src/src/validators/mod.rs): the files in
    \* the order in which they were given, whether the types of the files
    \* hold a cycle, how far the function is, the files the visitor has
    \* visited, whether the module contents were checked, and the
    \* diagnostics in the reporter
    data_files, has_cycle, validation_stage, visited_files, contents_checked,
    diagnostic_reporter,
    \* The constructors of the containers
    \* (src/src/parsers/slice/grammar.rs): the named elements of parser.ast,
    \* the children the constructor was given, and the container it
    \* returned (Nothing before the call)
    node_ast, arguments, container,
    \* AttributeKind::new (src/src/grammar/elements/attribute.rs): the
    \* directive and the arguments of the attribute, the kind returned
    \* (Nothing before the call), and what was reported
    directive, attribute_arguments, attribute_kind, attribute_reports,
    \* SliceFile::new (src/src/slice_file.rs): the text of the file, and
    \* the line positions computed for it (<<>> before the call)
    raw_text, line_positions,
    \* TypeRef::supported_encodings
    \* (src/src/grammar/elements/type_ref.rs): the type reference it is
    \* called on, and the set it returned (Nothing before the call)
    referenced_type, reference_encodings,
    \* The downcasts of the constructors (src/src/parsers/slice/grammar.rs,
    \* src/src/parser/slice.rs): the base types or the underlying type the
    \* constructor is given, and how the construction ended (Nothing before
    \* the call)
    base_types, construction,
    \* The readers of TypeRef::definition
    \* (src/src/grammar/elements/type_ref.rs,
    \* src/src/validators/dictionary.rs): the type reference that is read
    \* after the patching, and how the reader ended (Nothing before the
    \* call)
    read_ref, read_outcome,
    \* ValidatorVisitor::visit_type_alias (src/src/validators/mod.rs): the
    \* underlying type of the type alias, whether the alias was visited, and
    \* what the dictionary and the sequence validators reported for it
    type_alias, type_alias_visited, type_alias_reports,
    \* handle_file_compilation_mode (src/src/parsers/slice/grammar.rs): the
    \* identifiers of the mode declarations of the file in source order,
    \* how many of them were handled, the mode the rule holds (Nothing
    \* before the first declaration), parser.compilation_mode, and
    \* parser.diagnostics
    mode_declarations, declarations_handled, old_mode, file_compilation_mode, file_diagnostics,
    \* The check of a dictionary key: the named types, the structs among
    \* them that are compact, the key type of the dictionary, the calls of
    \* check_dictionary_key_type that are open, the value the last call
    \* returned, how far validate_compilation_data is, the errors, and the
    \* number of steps taken.
    key_types, compact_structs, checked_key, key_stack, key_result, key_stage,
    key_reports, key_steps,
    \* The parser among sibling definitions: the scope in effect before the
    \* first of them, ParserData::current_scope, the definition parsed last
    \* as it is written and as the node constructed, and the scopes the
    \* sibling nodes received.
    scope_at_start, parser_data_scope, last_input, last_definition, sibling_scopes

reporterVars == <<errors, error_count, warning_count, treat_warnings_as_errors,
                  reported, lastCall>>

tableVars == <<type_lookup_table, entity_lookup_table>>

lookupVars == <<lookupCall, lookupName, lookupScope, lookupResult>>

idVars == <<identifiers, idReports, idChecked>>

astVars == <<ast, replaced, diagnostics, stage, first_run>>

dictVars == <<key_type, keyResult, keyReports>>

encodingVars ==
    <<compilation_mode, fields, struct_supported_encodings, encodingReports>>

cycleVars == <<types, cyclesDetected, cycleReports>>

ppVars ==
    <<definitions, lines, position, live_stack, emitted, ppErrors, atEnd>>

enumVars == <<last_enumerator_value, enumerators, last_enum, enum_count>>

tagVars == <<parsed_integers, parser_diagnostics>>

moduleVars ==
    <<module_decl, scope_before, current_scope, body, module_phase,
      module_result>>

validationVars ==
    <<data_files, has_cycle, validation_stage, visited_files,
      contents_checked, diagnostic_reporter>>

containerVars == <<node_ast, arguments, container>>

attributeVars ==
    <<directive, attribute_arguments, attribute_kind, attribute_reports>>

sliceFileVars == <<raw_text, line_positions>>

typeRefVars == <<referenced_type, reference_encodings>>

downcastVars == <<base_types, construction>>

readerVars == <<read_ref, read_outcome>>

typeAliasVars == <<type_alias, type_alias_visited, type_alias_reports>>

modeVars == <<mode_declarations, declarations_handled, old_mode, file_compilation_mode, file_diagnostics>>

keyCheckVars ==
    <<key_types, compact_structs, checked_key, key_stack, key_result,
      key_stage, key_reports, key_steps>>

parserScopeVars == <<scope_at_start, parser_data_scope, last_input, last_definition, sibling_scopes>>

vars ==
    <<reporterVars, tableVars, lookupVars, idVars, astVars, dictVars,
      encodingVars, cycleVars, ppVars, enumVars, tagVars, moduleVars,
      validationVars,
      containerVars,
      attributeVars,
      sliceFileVars,
      typeRefVars,
      downcastVars,
      readerVars,
      typeAliasVars,
      modeVars,
      keyCheckVars,
      parserScopeVars>>

\* The actions of component c leave the variables of the others alone
\* (the lookups read the tables the Ast component writes).
Frame(c) ==
    /\ IF c # "reporter" THEN UNCHANGED reporterVars ELSE TRUE
    /\ IF c \notin {"ast", "lookup"} THEN UNCHANGED tableVars ELSE TRUE
    /\ IF c # "lookup" THEN UNCHANGED lookupVars ELSE TRUE
    /\ IF c # "identifiers" THEN UNCHANGED idVars ELSE TRUE
    /\ IF c # "ast" THEN UNCHANGED astVars ELSE TRUE
    /\ IF c # "dictionary" THEN UNCHANGED dictVars ELSE TRUE
    /\ IF c # "encoding" THEN UNCHANGED encodingVars ELSE TRUE
    /\ IF c # "cycles" THEN UNCHANGED cycleVars ELSE TRUE
    /\ IF c # "preprocessor" THEN UNCHANGED ppVars ELSE TRUE
    /\ IF c # "enum" THEN UNCHANGED enumVars ELSE TRUE
    /\ IF c # "tag" THEN UNCHANGED tagVars ELSE TRUE
    /\ IF c # "module" THEN UNCHANGED moduleVars ELSE TRUE
    /\ IF c # "validation" THEN UNCHANGED validationVars ELSE TRUE
    /\ IF c # "container" THEN UNCHANGED containerVars ELSE TRUE
    /\ IF c # "attribute" THEN UNCHANGED attributeVars ELSE TRUE
    /\ IF c # "slice_file" THEN UNCHANGED sliceFileVars ELSE TRUE
    /\ IF c # "type_ref" THEN UNCHANGED typeRefVars ELSE TRUE
    /\ IF c # "downcast" THEN UNCHANGED downcastVars ELSE TRUE
    /\ IF c # "reader" THEN UNCHANGED readerVars ELSE TRUE
    /\ IF c # "type_alias" THEN UNCHANGED typeAliasVars ELSE TRUE
    /\ IF c # "mode" THEN UNCHANGED modeVars ELSE TRUE
    /\ IF c # "keycheck" THEN UNCHANGED keyCheckVars ELSE TRUE
    /\ IF c # "parserscope" THEN UNCHANGED parserScopeVars ELSE TRUE

(***************************************************************************)
(* Helpers on sequences.                                                   *)
(***************************************************************************)
Range(s) == {s[i] : i \in DOMAIN s}

SeqsUpTo(S, n) == UNION {[1..k -> S] : k \in 0..n}

IsPrefix(s, t) == Len(s) <= Len(t) /\ SubSeq(t, 1, Len(s)) = s

(***************************************************************************)
(* Ast: the lookup tables and the two lookups.                             *)
(*                                                                         *)
(* A scoped identifier such as "A::B::S" is the sequence of its segments,  *)
(* <<"A", "B", "S">>: an identifier holds no ':', so joining segments with *)
(* "::" maps different sequences to different strings.  A name is a record *)
(* of its segments and of whether it starts with "::".                     *)
(***************************************************************************)
\* The deepest scope and the most user-defined keys of a table.
MaxDepth == 2
MaxEntries == 2

ScopeIds == {"A", "B"}

Scopes == SeqsUpTo(ScopeIds, MaxDepth)

None == "None"

Some(x) == <<"Some", x>>

\* Ast::new: every primitive is in the type table under its bare name.
PrimitiveNames ==
    {"bool", "byte", "short", "ushort", "int", "uint", "varint", "varuint",
     "long", "ulong", "varlong", "varulong", "float", "double", "string"}

\* Ast::add_cached_primitive: the entry of one primitive.
add_cached_primitive(identifier) == <<"Primitive", identifier>>

AstNewTypeTable ==
    [k \in {<<p>> : p \in PrimitiveNames} |-> add_cached_primitive(k[1])]

\* The loop of lookup_type and of lookup_entity, probing the outermost scope
\* first.
RECURSIVE lookup_relative_OutermostFirst(_, _, _, _)
lookup_relative_OutermostFirst(table, parents, name, n) ==
    IF n > Len(parents) THEN None
    ELSE IF (SubSeq(parents, 1, n) \o name) \in DOMAIN table
         THEN Some(table[SubSeq(parents, 1, n) \o name])
         ELSE lookup_relative_OutermostFirst(table, parents, name, n + 1)

lookup_relative_Outermost(table, parents, name) ==
    lookup_relative_OutermostFirst(table, parents, name, 1)

\* The loop of lookup_type and of lookup_entity:
\*   while !parents.is_empty() { candidate = parents.join("::") + "::" + name;
\*     if let Some(result) = table.get(&candidate) { return Some(result) }
\*     parents = parents.split_last().unwrap().1 }  None
RECURSIVE lookup_relative(_, _, _)
lookup_relative(table, parents, name) ==
    IF parents = <<>> THEN None
    ELSE IF (parents \o name) \in DOMAIN table
         THEN Some(table[parents \o name])
         ELSE lookup_relative(table, SubSeq(parents, 1, Len(parents) - 1), name)

\* if name.starts_with("::") { return table.get(&name[2..]) }
lookup_absolute(table, name) ==
    IF name \in DOMAIN table THEN Some(table[name]) ELSE None

\* Ast::lookup_type
lookup_type(name, scope) ==
    IF name.absolute THEN lookup_absolute(type_lookup_table, name.segments)
    ELSE lookup_relative(type_lookup_table, scope.module_scope, name.segments)

\* Ast::lookup_entity
lookup_entity(name, scope) ==
    IF name.absolute THEN lookup_absolute(entity_lookup_table, name.segments)
    ELSE lookup_relative(entity_lookup_table, scope.parser_scope, name.segments)

\* The names looked up: S, B::S and ::A::S, and the primitive int.
LookupNames ==
    {[absolute |-> FALSE, segments |-> <<"S">>],
     [absolute |-> FALSE, segments |-> <<"int">>],
     [absolute |-> FALSE, segments |-> <<"B", "S">>],
     [absolute |-> TRUE, segments |-> <<"A", "S">>]}

\* A Scope: the enclosing modules, and every enclosing named context (the
\* modules, and inside an interface I the interface as well).
LookupScopes ==
    {[module_scope |-> m, parser_scope |-> m \o x] :
        m \in Scopes, x \in {<<>>, <<"I">>}}

\* The keys of user-defined types named S: a type lies in a module.
TypeKeys == {m \o <<"S">> : m \in Scopes \ {<<>>}}

\* Keys of entities that are no types: a module S at the top level, and a
\* member S of the interface A::I.
EntityOnlyKeys == {<<"S">>, <<"A", "I", "S">>}

\* The tables after Ast::new and some calls of add_module.
TablesGiven ==
    \E K \in SUBSET TypeKeys, E \in SUBSET EntityOnlyKeys :
        /\ Cardinality(K) <= MaxEntries
        /\ Cardinality(E) <= 1
        /\ type_lookup_table =
              [k \in DOMAIN AstNewTypeTable \cup K |->
                  IF k \in K THEN <<"Type", k>> ELSE AstNewTypeTable[k]]
        /\ entity_lookup_table = [k \in K \cup E |-> <<"Entity", k>>]

TablesIdle ==
    /\ type_lookup_table = AstNewTypeTable
    /\ entity_lookup_table = <<>>

LookupIdle ==
    /\ lookupCall = "none"
    /\ lookupName = [absolute |-> FALSE, segments |-> <<>>]
    /\ lookupScope = [module_scope |-> <<>>, parser_scope |-> <<>>]
    /\ lookupResult = None

LookupInit == TablesGiven /\ LookupIdle

do_lookup_type ==
    /\ lookupCall = "none"
    /\ \E name \in LookupNames, scope \in LookupScopes :
          /\ lookupCall' = "lookup_type"
          /\ lookupName' = name
          /\ lookupScope' = scope
          /\ lookupResult' = lookup_type(name, scope)
    /\ UNCHANGED tableVars
    /\ Frame("lookup")

do_lookup_entity ==
    /\ lookupCall = "none"
    /\ \E name \in LookupNames, scope \in LookupScopes :
          /\ lookupCall' = "lookup_entity"
          /\ lookupName' = name
          /\ lookupScope' = scope
          /\ lookupResult' = lookup_entity(name, scope)
    /\ UNCHANGED tableVars
    /\ Frame("lookup")

LookupNext ==
    \/ do_lookup_type
    \/ do_lookup_entity

(***************************************************************************)
(* ErrorReporter: the diagnostic sink.                                     *)
(***************************************************************************)
\* The most diagnostics one reporter holds, and the longest argument of
\* append_errors.
MaxErrors == 3
MaxAppend == 2

ErrorLevel == {"Error", "Warning", "Note"}
Messages == {"m1", "m2"}
Locations == {"None", "l1"}

\* struct Error { message, location, severity }
Error == [message : Messages, location : Locations, severity : ErrorLevel]

\* The state of an ErrorReporter as a record, for the operators below.
Reporter == [errors |-> errors, error_count |-> error_count,
             warning_count |-> warning_count]

\* ErrorReporter::report with the Warning arm counting nothing.
report_WarningUncounted(r, error) ==
    [errors |-> Append(r.errors, error),
     error_count |-> IF error.severity = "Error" THEN r.error_count + 1
                     ELSE r.error_count,
     warning_count |-> r.warning_count]

\* ErrorReporter::report pushing at the front of the vector.
report_PushFront(r, error) ==
    [errors |-> <<error>> \o r.errors,
     error_count |-> IF error.severity = "Error" THEN r.error_count + 1
                     ELSE r.error_count,
     warning_count |-> IF error.severity = "Warning" THEN r.warning_count + 1
                       ELSE r.warning_count]

\* ErrorReporter::report
report(r, error) ==
    [errors |-> Append(r.errors, error),
     error_count |-> IF error.severity = "Error" THEN r.error_count + 1
                     ELSE r.error_count,
     warning_count |-> IF error.severity = "Warning" THEN r.warning_count + 1
                       ELSE r.warning_count]

\* ErrorReporter::append_errors: `for error in errors { self.report(error) }`
RECURSIVE append_errors_loop(_, _)
append_errors_loop(r, es) ==
    IF es = <<>> THEN r
    ELSE append_errors_loop(report(r, Head(es)), Tail(es))

\* ErrorReporter::has_errors
has_errors ==
    (error_count # 0) \/ (treat_warnings_as_errors /\ (warning_count # 0))

\* ErrorReporter::get_state
get_state == IF has_errors THEN "Err" ELSE "Ok"

\* ErrorReporter::get_totals
get_totals == <<error_count, warning_count>>

\* ErrorReporter::into_errors
into_errors == errors

\* ErrorReporter::new
ReporterInit ==
    /\ errors = <<>>
    /\ error_count = 0
    /\ warning_count = 0
    /\ treat_warnings_as_errors \in BOOLEAN
    /\ reported = <<>>
    /\ lastCall = "new"

Store(r, call, given) ==
    /\ errors' = r.errors
    /\ error_count' = r.error_count
    /\ warning_count' = r.warning_count
    /\ reported' = reported \o given
    /\ lastCall' = call
    /\ UNCHANGED treat_warnings_as_errors
    /\ Frame("reporter")

report_with(sev, call) ==
    /\ Len(errors) < MaxErrors
    /\ \E m \in Messages, l \in Locations :
          LET e == [message |-> m, location |-> l, severity |-> sev]
          IN Store(report(Reporter, e), call, <<e>>)

report_note == report_with("Note", "report_note")

report_warning == report_with("Warning", "report_warning")

report_error == report_with("Error", "report_error")

append_errors ==
    \E es \in SeqsUpTo(Error, MaxAppend) :
        /\ Len(errors) + Len(es) <= MaxErrors
        /\ Store(append_errors_loop(Reporter, es), "append_errors", es)

ReporterNext ==
    \/ report_note
    \/ report_warning
    \/ report_error
    \/ append_errors

ReporterIdle ==
    /\ errors = <<>>
    /\ error_count = 0
    /\ warning_count = 0
    /\ treat_warnings_as_errors = FALSE
    /\ reported = <<>>
    /\ lastCall = "new"

(***************************************************************************)
(* The identifier validator: check_for_redefinition.                       *)
(*                                                                         *)
(* An identifier is its value and its span; the span is the place of the   *)
(* identifier among the children of its container, in source order.  A     *)
(* value is a string; Rust orders strings by their bytes.                  *)
(***************************************************************************)
\* The most children of one container.
MaxIdentifiers == 4

IdValues == {"A", "a", "ab"}

\* The UTF-8 bytes of a value.
Utf8(v) ==
    CASE v = "A" -> <<65>>
      [] v = "a" -> <<97>>
      [] v = "ab" -> <<97, 98>>
      [] v = "S" -> <<83>>
      [] v = "T" -> <<84>>
      [] v = "B" -> <<66>>

\* impl Ord for str: byte-wise lexicographic order.
RECURSIVE BytesLess(_, _)
BytesLess(x, y) ==
    IF y = <<>> THEN FALSE
    ELSE IF x = <<>> THEN TRUE
    ELSE IF Head(x) # Head(y) THEN Head(x) < Head(y)
    ELSE BytesLess(Tail(x), Tail(y))

StrLess(v, w) == BytesLess(Utf8(v), Utf8(w))

\* Inserts x behind every element whose value is not greater than x's.
RECURSIVE InsertSorted(_, _)
InsertSorted(sorted, x) ==
    IF sorted = <<>> THEN <<x>>
    ELSE IF StrLess(x.value, Head(sorted).value)
         THEN <<x>> \o sorted
         ELSE <<Head(sorted)>> \o InsertSorted(Tail(sorted), x)

\* Inserts x before the elements whose value equals x's: not stable.
RECURSIVE InsertSortedBeforeEqual(_, _)
InsertSortedBeforeEqual(sorted, x) ==
    IF sorted = <<>> THEN <<x>>
    ELSE IF ~StrLess(Head(sorted).value, x.value)
         THEN <<x>> \o sorted
         ELSE <<Head(sorted)>> \o InsertSortedBeforeEqual(Tail(sorted), x)

RECURSIVE SortUnstableFrom(_, _)
SortUnstableFrom(sorted, rest) ==
    IF rest = <<>> THEN sorted
    ELSE SortUnstableFrom(InsertSortedBeforeEqual(sorted, Head(rest)), Tail(rest))

RECURSIVE SortFrom(_, _)
SortFrom(sorted, rest) ==
    IF rest = <<>> THEN sorted
    ELSE SortFrom(InsertSorted(sorted, Head(rest)), Tail(rest))

\* A sort that reverses the order of equal elements.
sort_by_key_Unstable(s) == SortUnstableFrom(<<>>, s)

\* slice::sort_by_key with the identifier's value as the key: a stable sort,
\* elements of equal value keep their order.
sort_by_key(s) == SortFrom(<<>>, s)

\* slice::windows(2)
windows2(s) == [i \in 1..(Len(s) - 1) |-> <<s[i], s[i + 1]>>]

\* What check_for_redefinition reports for one window: the error at
\* window[1], then the note at window[0].
RedefinitionReports(window) ==
    IF window[1].value = window[2].value
    THEN << [kind |-> "Redefinition", identifier |-> window[2].value,
             span |-> window[2].span],
            [kind |-> "Note", identifier |-> window[1].value,
             span |-> window[1].span] >>
    ELSE <<>>

\* identifiers.windows(2).for_each(..)
RECURSIVE ForEachWindow(_)
ForEachWindow(ws) ==
    IF ws = <<>> THEN <<>>
    ELSE RedefinitionReports(Head(ws)) \o ForEachWindow(Tail(ws))

\* check_for_redefinition
check_for_redefinition(ids) == ForEachWindow(windows2(sort_by_key(ids)))

\* The identifiers of the children of a container, in source order.
IdentifiersGiven ==
    \E values \in SeqsUpTo(IdValues, MaxIdentifiers) :
        identifiers = [i \in DOMAIN values |-> [value |-> values[i], span |-> i]]

IdentifiersInit ==
    /\ IdentifiersGiven
    /\ idReports = <<>>
    /\ idChecked = FALSE

IdentifiersIdle ==
    /\ identifiers = <<>>
    /\ idReports = <<>>
    /\ idChecked = FALSE

do_check_for_redefinition ==
    /\ ~idChecked
    /\ idReports' = idReports \o check_for_redefinition(identifiers)
    /\ idChecked' = TRUE
    /\ UNCHANGED identifiers
    /\ Frame("identifiers")

IdentifiersNext == do_check_for_redefinition

(***************************************************************************)
(* Ast::add_module and validate_module_contents.                           *)
(*                                                                         *)
(* A node of the AST is a record of its kind, the value of its identifier, *)
(* its scope (the identifiers of the enclosing modules) and its parent     *)
(* (the place of the enclosing module in `ast`, 0 at the top level).  The  *)
(* nodes lie in `ast` in source order, so the place of a node stands for   *)
(* its span and, in a table, for the pointer to it.                        *)
(***************************************************************************)
\* The most modules added to one AST and the most definitions written in
\* the body of a top-level module.
MaxModules == 2
MaxContents == 2

\* The definitions that insert themselves into the type table.
TypeKinds == {"Struct", "Class", "Interface", "Enum", "TypeAlias"}

\* The definitions written in the body of a top-level module: a struct S,
\* an exception S, and a module S that holds a struct S.
ModuleDefinitions ==
    {[kind |-> "Struct", identifier |-> "S"],
     [kind |-> "Exception", identifier |-> "S"],
     [kind |-> "Module", identifier |-> "S",
      contents |-> <<[kind |-> "Struct", identifier |-> "S"]>>]}

\* The top-level modules given to add_module.
TopLevelModules ==
    [kind : {"Module"}, identifier : {"A"},
     contents : SeqsUpTo(ModuleDefinitions, MaxContents)]

\* The nodes of `contents` and of the modules among them, appended to
\* `nodes` in source order (the order in which visit_ptr_with visits them).
RECURSIVE VisitContents(_, _, _, _)
VisitContents(nodes, contents, scope, parent) ==
    IF contents = <<>> THEN nodes
    ELSE LET def == Head(contents)
             withDef == Append(nodes, [kind |-> def.kind,
                                       value |-> def.identifier,
                                       scope |-> scope,
                                       parent |-> parent])
             withInner ==
                 IF def.kind = "Module"
                 THEN VisitContents(withDef, def.contents,
                                    scope \o <<def.identifier>>, Len(withDef))
                 ELSE withDef
         IN VisitContents(withInner, Tail(contents), scope, parent)

\* Entity::parser_scoped_identifier and module_scoped_identifier of a
\* definition that lies in a module: the enclosing modules, then its own
\* identifier.
ScopedIdentifier(node) == node.scope \o <<node.value>>

\* HashMap::insert: the table with `key` bound to `ptr`, whatever it held.
Insert(table, key, ptr) ==
    [k \in DOMAIN table \cup {key} |-> IF k = key THEN ptr ELSE table[k]]

\* What HashMap::insert returns and its callers drop: the entry it has
\* displaced, when the key was bound to another definition.
Displaced(which, table, key, ptr) ==
    IF key \in DOMAIN table /\ table[key] # ptr
    THEN {[table |-> which, key |-> key, old |-> table[key], new |-> ptr]}
    ELSE {}

\* LookupTableBuilder: the visit of one node.  t is the record of the two
\* tables and of the entries displaced so far.
\* add_type_entry
add_type_entry(t, nodes, n) ==
    [t EXCEPT !.types = Insert(t.types, ScopedIdentifier(nodes[n]), n),
              !.displaced = @ \cup Displaced("type", t.types,
                                             ScopedIdentifier(nodes[n]), n)]

\* add_entity_entry
add_entity_entry(t, nodes, n) ==
    [t EXCEPT !.entities = Insert(t.entities, ScopedIdentifier(nodes[n]), n),
              !.displaced = @ \cup Displaced("entity", t.entities,
                                             ScopedIdentifier(nodes[n]), n)]

\* visit_module_start, visit_struct_start, visit_exception_start, ...
VisitNode(t, nodes, n) ==
    IF nodes[n].kind \in TypeKinds
    THEN add_entity_entry(add_type_entry(t, nodes, n), nodes, n)
    ELSE add_entity_entry(t, nodes, n)

\* module_ptr.visit_ptr_with(&mut visitor): the nodes from..Len(nodes).
RECURSIVE VisitFrom(_, _, _)
VisitFrom(t, nodes, from) ==
    IF from > Len(nodes) THEN t
    ELSE VisitFrom(VisitNode(t, nodes, from), nodes, from + 1)

AstInit ==
    /\ ast = <<>>
    /\ type_lookup_table = AstNewTypeTable
    /\ entity_lookup_table = <<>>
    /\ replaced = {}
    /\ diagnostics = <<>>
    /\ stage = "parsing"
    /\ first_run = <<>>

AstIdle ==
    /\ ast = <<>>
    /\ replaced = {}
    /\ diagnostics = <<>>
    /\ stage = "parsing"
    /\ first_run = <<>>

TopLevel(nodes) == {n \in DOMAIN nodes : nodes[n].parent = 0}

\* Ast::add_module
add_module ==
    /\ stage = "parsing"
    /\ Cardinality(TopLevel(ast)) < MaxModules
    /\ \E module_def \in TopLevelModules :
          LET module_ptr == Len(ast) + 1
              nodes == VisitContents(
                           Append(ast, [kind |-> "Module",
                                        value |-> module_def.identifier,
                                        scope |-> <<>>, parent |-> 0]),
                           module_def.contents, <<module_def.identifier>>,
                           module_ptr)
              \* self.entity_lookup_table.insert(parser_scoped_identifier, ..)
              first == add_entity_entry(
                           [types |-> type_lookup_table,
                            entities |-> entity_lookup_table,
                            displaced |-> replaced], nodes, module_ptr)
              t == VisitFrom(first, nodes, module_ptr)
          IN /\ ast' = nodes
             /\ type_lookup_table' = t.types
             /\ entity_lookup_table' = t.entities
             /\ replaced' = t.displaced
    /\ UNCHANGED <<diagnostics, stage, first_run>>
    /\ Frame("ast")

\* The modules of the AST: `if let Node::Module(module_ptr) = node`.
Modules(nodes) == {n \in DOMAIN nodes : nodes[n].kind = "Module"}

\* module.contents(): the definitions of a module, in source order, each
\* with its place in the AST as its span.
RECURSIVE ContentsFrom(_, _, _)
ContentsFrom(nodes, module, from) ==
    IF from > Len(nodes) THEN <<>>
    ELSE (IF nodes[from].parent = module
          THEN <<[kind |-> nodes[from].kind, value |-> nodes[from].value,
                  span |-> from]>>
          ELSE <<>>) \o ContentsFrom(nodes, module, from + 1)

contents(nodes, module) == ContentsFrom(nodes, module, 1)

\* merged_module_contents.entry(key).or_default().extend(module.contents()),
\* over the modules of the AST in its order: the value stored under `key`.
RECURSIVE MergedFrom(_, _, _)
MergedFrom(nodes, key, from) ==
    IF from > Len(nodes) THEN <<>>
    ELSE (IF nodes[from].kind = "Module" /\ ScopedIdentifier(nodes[from]) = key
          THEN contents(nodes, from)
          ELSE <<>>) \o MergedFrom(nodes, key, from + 1)

merged_module_contents(nodes) ==
    [key \in {ScopedIdentifier(nodes[n]) : n \in Modules(nodes)} |->
        MergedFrom(nodes, key, 1)]

\* The test of a window with the exemption widened to `either is a module`.
IsRedefinition_EitherModule(window) ==
    /\ window[1].value = window[2].value
    /\ ~(window[1].kind = "Module" \/ window[2].kind = "Module")

\* identifier_0.value == identifier_1.value && !(both are modules)
IsRedefinition(window) ==
    /\ window[1].value = window[2].value
    /\ ~(window[1].kind = "Module" /\ window[2].kind = "Module")

\* The diagnostic of one window: the error at window[1] with its note at
\* window[0].
RECURSIVE ModuleWindows(_)
ModuleWindows(ws) ==
    IF ws = <<>> THEN <<>>
    ELSE (IF IsRedefinition(Head(ws))
          THEN <<[kind |-> "Redefinition", identifier |-> Head(ws)[2].value,
                  span |-> Head(ws)[2].span, note |-> Head(ws)[1].span]>>
          ELSE <<>>) \o ModuleWindows(Tail(ws))

\* The body of `for mut module_contents in merged.into_values()`.
CheckModuleContents(module_contents) ==
    ModuleWindows(windows2(sort_by_key(module_contents)))

\* The orders in which into_values() can yield the values of `keys`.
Orders(keys) ==
    {o \in [1..Cardinality(keys) -> keys] : \A k \in keys : \E i \in DOMAIN o : o[i] = k}

RECURSIVE ReportInOrder(_, _)
ReportInOrder(merged, order) ==
    IF order = <<>> THEN <<>>
    ELSE CheckModuleContents(merged[Head(order)])
            \o ReportInOrder(merged, Tail(order))

\* validate_module_contents.  A HashMap yields its values in no order the
\* program controls; a module with nothing to report adds nothing wherever
\* it comes, so the order is chosen among the modules that report.
validate_module_contents ==
    /\ stage = "parsing"
    /\ ast # <<>>
    /\ LET merged == merged_module_contents(ast)
           reporting == {k \in DOMAIN merged : CheckModuleContents(merged[k]) # <<>>}
       IN \E order \in Orders(reporting) :
             diagnostics' = diagnostics \o ReportInOrder(merged, order)
    /\ stage' = "validated"
    /\ UNCHANGED <<ast, replaced, first_run, tableVars>>
    /\ Frame("ast")

\* validate_module_contents in a second run on the same AST, with a new
\* reporter; first_run keeps the diagnostics of the first run.
validate_module_contents_again ==
    /\ stage = "validated"
    /\ LET merged == merged_module_contents(ast)
           reporting == {k \in DOMAIN merged : CheckModuleContents(merged[k]) # <<>>}
       IN \E order \in Orders(reporting) :
             diagnostics' = ReportInOrder(merged, order)
    /\ first_run' = <<diagnostics>>
    /\ stage' = "validated again"
    /\ UNCHANGED <<ast, replaced, tableVars>>
    /\ Frame("ast")

AstNext ==
    \/ add_module
    \/ validate_module_contents

\* The compilation followed by a second run of the validation.
AstTwiceNext ==
    \/ add_module
    \/ validate_module_contents
    \/ validate_module_contents_again

(***************************************************************************)
(* ValidatorVisitor::check_dictionary_key_type.                            *)
(*                                                                         *)
(* A TypeRef is a record of is_optional and of its definition; a           *)
(* definition is a record of its concrete type and, for a primitive, of    *)
(* the primitive, for a struct, of is_compact and of the types of its      *)
(* members.  The span of a type is the path of member places that leads    *)
(* to it from the key.                                                     *)
(***************************************************************************)
\* The most members of a struct.
MaxMembers == 2

\* The primitives of the language.
IntegerPrimitives ==
    {"int8", "uint8", "int16", "uint16", "int32", "uint32", "varint32",
     "varuint32", "int64", "uint64", "varint62", "varuint62"}

Primitives ==
    IntegerPrimitives \cup
        {"bool", "float32", "float64", "string", "ServiceAddress", "AnyClass"}

\* The concrete types that have no parts the check looks at.
PlainTypes ==
    {"Class", "Exception", "Interface", "Enum", "CustomType", "Sequence",
     "Dictionary"}

PlainDefinitions ==
    [type : {"Primitive"}, primitive : Primitives] \cup [type : PlainTypes]

TypeRefsOf(defs) == [is_optional : BOOLEAN, definition : defs]

\* The types of the members of the structs: an integer, an optional
\* string, a float and a service address, and in a struct that is a key
\* itself a struct of at most one such member as well.
MemberTypes ==
    {[is_optional |-> FALSE,
      definition |-> [type |-> "Primitive", primitive |-> "int32"]],
     [is_optional |-> TRUE,
      definition |-> [type |-> "Primitive", primitive |-> "string"]],
     [is_optional |-> FALSE,
      definition |-> [type |-> "Primitive", primitive |-> "float64"]],
     [is_optional |-> FALSE,
      definition |-> [type |-> "Primitive", primitive |-> "ServiceAddress"]]}

InnerStructs ==
    [type : {"Struct"}, is_compact : BOOLEAN,
     members : {m \in SeqsUpTo(MemberTypes, MaxMembers) : Len(m) <= 1}]

OuterStructs ==
    [type : {"Struct"}, is_compact : BOOLEAN,
     members : SeqsUpTo(MemberTypes \cup TypeRefsOf(InnerStructs), MaxMembers)]

\* The key types of the dictionaries that are checked.
KeyTypes == TypeRefsOf(PlainDefinitions \cup OuterStructs)

\* definition.kind(), made plural for the message.
pluralized_kind(definition) ==
    CASE definition.type = "Primitive" -> definition.primitive
      [] definition.type = "Class" -> "classes"
      [] definition.type = "Dictionary" -> "dictionaries"
      [] definition.type = "Exception" -> "exceptions"
      [] definition.type = "Interface" -> "interfaces"
      [] definition.type = "Sequence" -> "sequences"
      [] OTHER -> "types"

\* !matches!(primitive, Float32 | Float64 | AnyClass)
primitive_is_valid(primitive) ==
    primitive \notin {"float32", "float64", "AnyClass"}

\* The rows of the match that give (is_valid, named_symbol).
is_valid(definition) ==
    CASE definition.type \in {"Class", "Exception", "Interface"} -> FALSE
      [] definition.type \in {"Enum", "CustomType"} -> TRUE
      [] definition.type \in {"Sequence", "Dictionary"} -> FALSE
      [] definition.type = "Primitive" -> primitive_is_valid(definition.primitive)

KeyError(kind, arg, span) == [kind |-> kind, arg |-> arg, span |-> span]

\* check_dictionary_key_type(type_ref): what it returns and, in order,
\* what it reports.  `span` is the span of type_ref.
RECURSIVE check_dictionary_key_type(_, _)
RECURSIVE check_members(_, _, _, _)
check_members(members, i, span, acc) ==
    IF i > Len(members) THEN acc
    ELSE LET r == check_dictionary_key_type(members[i], span \o <<i>>)
         IN check_members(members, i + 1, span,
                IF r.result
                THEN [acc EXCEPT !.errors = @ \o r.errors]
                ELSE [contains_invalid_key_types |-> TRUE,
                      errors |-> acc.errors \o r.errors \o
                          <<KeyError("KeyTypeNotSupported", <<"member", i>>,
                                     span \o <<i>>)>>])

check_dictionary_key_type(type_ref, span) ==
    LET definition == type_ref.definition IN
    IF type_ref.is_optional
    THEN [result |-> FALSE,
          errors |-> <<KeyError("KeyMustBeNonOptional", <<>>, span)>>]
    ELSE IF definition.type = "Struct"
    THEN IF ~definition.is_compact
         THEN [result |-> FALSE,
               errors |-> <<KeyError("StructKeyMustBeCompact", <<>>, span)>>]
         ELSE LET m == check_members(definition.members, 1, span,
                           [contains_invalid_key_types |-> FALSE,
                            errors |-> <<>>])
              IN IF m.contains_invalid_key_types
                 THEN [result |-> FALSE,
                       errors |-> m.errors \o
                           <<KeyError("StructKeyContainsDisallowedType",
                                      <<>>, span)>>]
                 ELSE [result |-> TRUE, errors |-> m.errors]
    ELSE IF ~is_valid(definition)
    THEN [result |-> FALSE,
          errors |-> <<KeyError("KeyTypeNotSupported",
                                pluralized_kind(definition), span)>>]
    ELSE [result |-> TRUE, errors |-> <<>>]

DictionaryIdle ==
    /\ key_type = [is_optional |-> FALSE, definition |-> [type |-> "Enum"]]
    /\ keyResult = <<>>
    /\ keyReports = <<>>

DictionaryInit ==
    /\ key_type \in KeyTypes
    /\ keyResult = <<>>
    /\ keyReports = <<>>

\* has_allowed_key_type, for one dictionary.
has_allowed_key_type ==
    /\ keyResult = <<>>
    /\ LET r == check_dictionary_key_type(key_type, <<>>)
       IN /\ keyResult' = <<r.result>>
          /\ keyReports' = r.errors
    /\ UNCHANGED key_type
    /\ Frame("dictionary")

DictionaryNext ==
    \/ has_allowed_key_type

(***************************************************************************)
(* The encoding patcher and TypeRef::supported_encodings.                  *)
(*                                                                         *)
(* Every type has the set of the encodings it supports.  The patcher       *)
(* computes the set of a struct from the sets of the types of its fields   *)
(* and reports each field whose type does not support the compilation      *)
(* mode of the file.                                                       *)
(***************************************************************************)
\* The most fields of the compact struct.
MaxFields == 2

Encodings == {"Slice1", "Slice2"}

\* The primitives of the table of supported encodings.
TablePrimitives == Primitives \ {"ServiceAddress"}

\* The hard-coded table of the primitives.
primitive_supported_encodings(primitive) ==
    CASE primitive = "AnyClass" -> {"Slice1"}
      [] primitive \in {"int8", "uint16", "uint32", "uint64", "varint32",
                        "varuint32", "varint62", "varuint62"} -> {"Slice2"}
      [] OTHER -> {"Slice1", "Slice2"}

\* SupportedEncodings::disable
disable(supported_encodings, encoding) == supported_encodings \ {encoding}

\* Type::supported_encodings of a definition: the table for a primitive,
\* and for another type the set the encoding patcher has stored in it.
definition_supported_encodings(referenced) ==
    IF referenced.type = "Primitive"
    THEN primitive_supported_encodings(referenced.primitive)
    ELSE referenced.supported_encodings

\* TypeRef::supported_encodings with Slice1 disabled for every type.
supported_encodings_AlwaysDisabled(type_ref) ==
    disable(definition_supported_encodings(type_ref.definition), "Slice1")

\* TypeRef::supported_encodings
supported_encodings(type_ref) ==
    LET of_definition == definition_supported_encodings(type_ref.definition)
    IN IF type_ref.is_optional
       THEN disable(of_definition, "Slice1")
       ELSE of_definition

\* The types of the fields: the primitives of the table, optional or not.
FieldTypes ==
    TypeRefsOf([type : {"Primitive"}, primitive : TablePrimitives])

\* Aggregate: the intersection over the fields, from place i on.
RECURSIVE IntersectFrom(_, _)
IntersectFrom(field_types, i) ==
    IF i > Len(field_types) THEN Encodings
    ELSE supported_encodings(field_types[i]) \cap IntersectFrom(field_types, i + 1)

\* Any type used in the file must include the mode of the file in its set:
\* the errors of the fields from place i on, in source order.
RECURSIVE UnsupportedFrom(_, _, _)
UnsupportedFrom(field_types, mode, i) ==
    IF i > Len(field_types) THEN <<>>
    ELSE (IF mode \notin supported_encodings(field_types[i])
          THEN <<[kind |-> "UnsupportedType",
                  type_kind |-> field_types[i].definition.primitive,
                  encoding |-> mode,
                  span |-> i]>>
          ELSE <<>>) \o UnsupportedFrom(field_types, mode, i + 1)

EncodingIdle ==
    /\ compilation_mode = "Slice2"
    /\ fields = <<>>
    /\ struct_supported_encodings = None
    /\ encodingReports = <<>>

\* handle_file_compilation_mode sets the mode an `encoding = ` line names;
\* a file without one keeps the default, Slice2.
EncodingInit ==
    /\ compilation_mode \in Encodings
    /\ fields \in SeqsUpTo(FieldTypes, MaxFields)
    /\ struct_supported_encodings = None
    /\ encodingReports = <<>>

\* The encoding patcher, on the compact struct of the file.
patch_encodings ==
    /\ struct_supported_encodings = None
    /\ struct_supported_encodings' = Some(IntersectFrom(fields, 1))
    /\ encodingReports' = UnsupportedFrom(fields, compilation_mode, 1)
    /\ UNCHANGED <<compilation_mode, fields>>
    /\ Frame("encoding")

EncodingNext ==
    \/ patch_encodings

(***************************************************************************)
(* The cycle detector.                                                     *)
(*                                                                         *)
(* The program has the named types 1..MaxTypes.  A type is a struct or a   *)
(* class with at most one field, or an exception or an interface with at   *)
(* most one base.  The type of a field is a named type, a sequence of one, *)
(* an alias of one, or a dictionary whose key and value are named types or *)
(* primitives (0).  A node of the containment graph is a named type,       *)
(* <<"T", i>>, or the sequence, alias or dictionary written in the field   *)
(* of type i, <<"F", i>>.                                                  *)
(***************************************************************************)
\* The number of named types.
MaxTypes == 2

TypeIds == 1..MaxTypes

FieldForms ==
    [form : {"None"}]
        \cup [form : {"Named", "Sequence", "TypeAlias"}, target : TypeIds]
        \cup [form : {"Dictionary"}, key : TypeIds \cup {0},
              value : TypeIds \cup {0}]

BaseForms == [form : {"None"}] \cup [form : {"Named"}, target : TypeIds]

TypeDefinitions ==
    [kind : {"Struct", "Class"}, refers : FieldForms]
        \cup [kind : {"Exception", "Interface"}, refers : BaseForms]

GraphNodes == {<<"T", i>> : i \in TypeIds} \cup {<<"F", i>> : i \in TypeIds}

\* The order in which the detector takes the nodes as roots.
RECURSIVE NodeOrderFrom(_)
NodeOrderFrom(i) ==
    IF i > MaxTypes THEN <<>>
    ELSE <<(<<"T", i>>), (<<"F", i>>)>> \o NodeOrderFrom(i + 1)

\* A named type as a node, nothing for a primitive.
NamedNode(j) == IF j = 0 THEN <<>> ELSE <<(<<"T", j>>)>>

\* The edges of graph `ts` with the field of a class taken as an edge too.
Successors_ClassFields(ts, node) ==
    LET def == ts[node[2]] IN
    IF node[1] = "T"
    THEN IF def.kind \in {"Struct", "Class"} /\ def.refers.form # "None"
         THEN IF def.refers.form = "Named"
              THEN <<(<<"T", def.refers.target>>)>>
              ELSE <<(<<"F", node[2]>>)>>
         ELSE <<>>
    ELSE CASE def.refers.form \in {"Sequence", "TypeAlias"} ->
                  <<(<<"T", def.refers.target>>)>>
           [] def.refers.form = "Dictionary" ->
                  IF def.refers.key = def.refers.value
                  THEN NamedNode(def.refers.key)
                  ELSE NamedNode(def.refers.key) \o NamedNode(def.refers.value)
           [] OTHER -> <<>>

\* The edges of the graph: struct -> the type of its field; sequence ->
\* its element; dictionary -> its key and its value; alias -> what it
\* names.  A class, an exception and an interface have no edge.
Successors(ts, node) ==
    LET def == ts[node[2]] IN
    IF node[1] = "T"
    THEN IF def.kind = "Struct" /\ def.refers.form # "None"
         THEN IF def.refers.form = "Named"
              THEN <<(<<"T", def.refers.target>>)>>
              ELSE <<(<<"F", node[2]>>)>>
         ELSE <<>>
    ELSE CASE def.refers.form \in {"Sequence", "TypeAlias"} ->
                  <<(<<"T", def.refers.target>>)>>
           [] def.refers.form = "Dictionary" ->
                  IF def.refers.key = def.refers.value
                  THEN NamedNode(def.refers.key)
                  ELSE NamedNode(def.refers.key) \o NamedNode(def.refers.value)
           [] OTHER -> <<>>

\* The part of the stack of grey nodes from `node` on: the participants of
\* the cycle a grey -> grey edge to `node` closes.
RECURSIVE StackFrom(_, _)
StackFrom(stack, node) ==
    IF Head(stack) = node THEN stack ELSE StackFrom(Tail(stack), node)

\* The depth-first search with the three colours.  d is the record of the
\* colour of every node and of the cycles reported so far.
RECURSIVE Visit(_, _, _, _)
RECURSIVE VisitEdges(_, _, _, _)
VisitEdges(ts, d, stack, edges) ==
    IF edges = <<>> THEN d
    ELSE LET v == Head(edges)
             after ==
                 CASE d.colour[v] = "white" -> Visit(ts, d, stack, v)
                   [] d.colour[v] = "grey" ->
                          [d EXCEPT !.reports =
                              Append(@, [kind |-> "CycleDetected",
                                         cycle |-> StackFrom(stack, v)])]
                   [] OTHER -> d
         IN VisitEdges(ts, after, stack, Tail(edges))

Visit(ts, d, stack, u) ==
    LET grey == [d EXCEPT !.colour[u] = "grey"]
        done == VisitEdges(ts, grey, Append(stack, u), Successors(ts, u))
    IN [done EXCEPT !.colour[u] = "black"]

RECURSIVE VisitRoots(_, _, _)
VisitRoots(ts, d, roots) ==
    IF roots = <<>> THEN d
    ELSE VisitRoots(ts,
                    IF d.colour[Head(roots)] = "white"
                    THEN Visit(ts, d, <<>>, Head(roots))
                    ELSE d,
                    Tail(roots))

\* detect_cycles that finds nothing.
detect_cycles_None(ts) == <<>>

\* detect_cycles: the cycles reported for the types ts.
detect_cycles(ts) ==
    VisitRoots(ts, [colour |-> [n \in GraphNodes |-> "white"],
                    reports |-> <<>>],
               NodeOrderFrom(1)).reports

CyclesIdle ==
    /\ types = <<>>
    /\ cyclesDetected = FALSE
    /\ cycleReports = <<>>

CyclesInit ==
    /\ types \in [TypeIds -> TypeDefinitions]
    /\ cyclesDetected = FALSE
    /\ cycleReports = <<>>

\* validate_compilation_data: detect_cycles(..) before the other checks.
do_detect_cycles ==
    /\ ~cyclesDetected
    /\ cyclesDetected' = TRUE
    /\ cycleReports' = detect_cycles(types)
    /\ UNCHANGED types
    /\ Frame("cycles")

CyclesNext ==
    \/ do_detect_cycles

(***************************************************************************)
(* The preprocessor.                                                       *)
(*                                                                         *)
(* A line of the file is a token of the language or a directive; the span  *)
(* of a line is its place in the file.  The preprocessor passes over the   *)
(* lines once, with a stack of booleans that tell whether the regions      *)
(* that are open are live.                                                 *)
(***************************************************************************)
\* The most lines of the file.
MaxLines == 4

\* The symbols the directives name: Foo and Bar.
Symbols == {"Foo", "Bar"}

Lines ==
    [kind : {"token", "else", "endif", "unknown"}, symbol : {""}]
        \cup [kind : {"if", "elif"}, symbol : Symbols]

\* The `if` at place i is open at place p: no `endif` between them closes
\* it.
RECURSIVE OpenDepth(_, _, _)
OpenDepth(ls, i, j) ==
    IF j <= i THEN 0
    ELSE OpenDepth(ls, i, j - 1) +
            (CASE ls[j].kind = "if" -> 1
               [] ls[j].kind = "endif" -> -1
               [] OTHER -> 0)

Encloses(ls, i, p) ==
    /\ i < p
    /\ ls[i].kind = "if"
    /\ \A j \in (i + 1)..(p - 1) : OpenDepth(ls, i, j) >= 0

\* The files given to the preprocessor: an `else` or an `elif` is written
\* inside a conditional.
Files ==
    {ls \in SeqsUpTo(Lines, MaxLines) :
        \A j \in DOMAIN ls :
            ls[j].kind \in {"else", "elif"} =>
                \E i \in DOMAIN ls : Encloses(ls, i, j)}

\* The last entry of the stack replaced.
ReplaceTop(stack, b) == [stack EXCEPT ![Len(stack)] = b]

\* Whether a token is passed on, decided by the top of the stack alone.
is_live_TopOnly(stack) == stack = <<>> \/ stack[Len(stack)]

\* Whether a token is passed on: no region that is open is inactive.
is_live(stack) == \A i \in DOMAIN stack : stack[i]

PpError(kind, span) == [kind |-> kind, span |-> span]

PreprocessorIdle ==
    /\ definitions = {}
    /\ lines = <<>>
    /\ position = 1
    /\ live_stack = <<>>
    /\ emitted = <<>>
    /\ ppErrors = <<>>
    /\ atEnd = FALSE

PreprocessorInit ==
    /\ definitions \in {{}, {"Foo"}}
    /\ lines \in Files
    /\ position = 1
    /\ live_stack = <<>>
    /\ emitted = <<>>
    /\ ppErrors = <<>>
    /\ atEnd = FALSE

\* The line the pass is at is of kind k.
AtLine(k) ==
    /\ position <= Len(lines)
    /\ lines[position].kind = k
    /\ position' = position + 1
    /\ UNCHANGED <<definitions, lines, atEnd>>
    /\ Frame("preprocessor")

\* A token: passed on with its span in a live region, dropped otherwise.
pp_token ==
    /\ AtLine("token")
    /\ emitted' = IF is_live(live_stack) THEN Append(emitted, position)
                  ELSE emitted
    /\ UNCHANGED <<live_stack, ppErrors>>

\* #if IDENT: push (IDENT \in defines).
pp_if ==
    /\ AtLine("if")
    /\ live_stack' = Append(live_stack, lines[position].symbol \in definitions)
    /\ UNCHANGED <<emitted, ppErrors>>

\* #elif IDENT: replace the top by (IDENT \in defines).
pp_elif ==
    /\ AtLine("elif")
    /\ live_stack' = ReplaceTop(live_stack, lines[position].symbol \in definitions)
    /\ UNCHANGED <<emitted, ppErrors>>

\* #else: flip the top.
pp_else ==
    /\ AtLine("else")
    /\ live_stack' = ReplaceTop(live_stack, ~live_stack[Len(live_stack)])
    /\ UNCHANGED <<emitted, ppErrors>>

\* #endif: pop; an error when no region is open.
pp_endif ==
    /\ AtLine("endif")
    /\ IF live_stack = <<>>
       THEN /\ ppErrors' = Append(ppErrors, PpError("UnmatchedEndif", position))
            /\ UNCHANGED live_stack
       ELSE /\ live_stack' = SubSeq(live_stack, 1, Len(live_stack) - 1)
            /\ UNCHANGED ppErrors
    /\ UNCHANGED emitted

\* A directive the preprocessor does not know: an error.
pp_unknown ==
    /\ AtLine("unknown")
    /\ ppErrors' = Append(ppErrors, PpError("UnknownDirective", position))
    /\ UNCHANGED <<live_stack, emitted>>

\* The end of the file: an error when a region is still open.
pp_eof ==
    /\ position > Len(lines)
    /\ ~atEnd
    /\ atEnd' = TRUE
    /\ ppErrors' = IF live_stack # <<>>
                   THEN Append(ppErrors, PpError("UnterminatedRegion", position))
                   ELSE ppErrors
    /\ UNCHANGED <<definitions, lines, position, live_stack, emitted>>
    /\ Frame("preprocessor")

PreprocessorNext ==
    \/ pp_token
    \/ pp_if
    \/ pp_elif
    \/ pp_else
    \/ pp_endif
    \/ pp_unknown
    \/ pp_eof

(***************************************************************************)
(* construct_enumerator and construct_enum.                                *)
(*                                                                         *)
(* The value of an enumerator is an i128.  An i128 is written here as a    *)
(* base and an offset from it, the base being 0, i128::MAX or i128::MIN,   *)
(* so that the values next to the ends of the type can be told from the    *)
(* small ones.                                                             *)
(***************************************************************************)
\* The most enumerators of one enum, and the most enums parsed.
MaxEnumerators == 2
MaxEnums == 2

\* An Option<T> as a sequence of at most one T.
Nothing == <<>>

Just(x) == <<x>>

I128(base, offset) == [base |-> base, offset |-> offset]

\* i128::wrapping_add(x, 1)
wrapping_add_1(x) ==
    IF x.base = "i128::MAX" /\ x.offset = 0
    THEN I128("i128::MIN", 0)
    ELSE I128(x.base, x.offset + 1)

\* The explicit values written in the enums: 7, 127, 255 and i128::MAX.
ExplicitValues ==
    {I128("0", 7), I128("0", 127), I128("0", 255), I128("i128::MAX", 0)}

\* The underlying types written after the identifier of an enum.
UnderlyingTypes == {"uint8", "int8", "int16"}

\* Option::map_or(0, |x| x.wrapping_add(1))
implicit_value(last) ==
    IF last = Nothing THEN I128("0", 0) ELSE wrapping_add_1(last[1])

EnumInit ==
    /\ last_enumerator_value = Nothing
    /\ enumerators = <<>>
    /\ last_enum = Nothing
    /\ enum_count = 0

EnumIdle == EnumInit

\* construct_enumerator
construct_enumerator ==
    /\ enum_count < MaxEnums
    /\ Len(enumerators) < MaxEnumerators
    /\ \E enumerator_value \in {Nothing} \cup {Just(v) : v \in ExplicitValues} :
          LET value ==
                  IF enumerator_value # Nothing
                  THEN [kind |-> "Explicit", value |-> enumerator_value[1]]
                  ELSE [kind |-> "Implicit",
                        value |-> implicit_value(last_enumerator_value)]
          IN /\ enumerators' = Append(enumerators, value)
             /\ last_enumerator_value' = Just(value.value)
    /\ UNCHANGED <<last_enum, enum_count>>
    /\ Frame("enum")

\* construct_enum
construct_enum ==
    /\ enum_count < MaxEnums
    /\ \E underlying \in {Nothing} \cup {Just(t) : t \in UnderlyingTypes} :
          last_enum' = Just([underlying |-> underlying,
                             enumerators |-> enumerators])
    /\ enumerators' = <<>>
    /\ last_enumerator_value' = Nothing
    /\ enum_count' = enum_count + 1
    /\ Frame("enum")

EnumNext ==
    \/ construct_enumerator
    \/ construct_enum

(***************************************************************************)
(* parse_tag_value and parse_compact_id_value.                             *)
(*                                                                         *)
(* An integer is written as a base and an offset from it, the base being   *)
(* 0, 2^31 or 2^32, and the offset one of -1, 0, 1: the integers next to   *)
(* 0, to i32::MAX = 2^31 - 1 and to the end of u32.                        *)
(***************************************************************************)
\* The most tags and compact ids parsed.
MaxParsedIntegers == 2

Wide(base, offset) == [base |-> base, offset |-> offset]

\* The integers written as tags and compact ids: -1, 0, 1, 2^31 - 1, 2^31,
\* 2^31 + 1, 2^32 - 1, 2^32, 2^32 + 1.
WrittenIntegers == {Wide(b, o) : b \in {"0", "2^31", "2^32"}, o \in {-1, 0, 1}}

\* RangeInclusive::new(0, i32::MAX as i128).contains(&value)
in_tag_range(value) ==
    \/ value.base = "0" /\ value.offset >= 0
    \/ value.base = "2^31" /\ value.offset < 0

\* value as u32: the i128 modulo 2^32.
as_u32(value) ==
    CASE value.base = "0" /\ value.offset < 0 -> Wide("2^32", value.offset)
      [] value.base = "2^32" /\ value.offset >= 0 -> Wide("0", value.offset)
      [] OTHER -> value

TagInit ==
    /\ parsed_integers = <<>>
    /\ parser_diagnostics = <<>>

TagIdle == TagInit

\* The diagnostics after the check of the range of i, whose span is the
\* place of its call.
check_range(error, i) ==
    IF ~in_tag_range(i)
    THEN Append(parser_diagnostics,
                [kind |-> error, span |-> Len(parsed_integers) + 1])
    ELSE parser_diagnostics

\* parse_tag_value
parse_tag_value ==
    /\ Len(parsed_integers) < MaxParsedIntegers
    /\ \E i \in WrittenIntegers :
          /\ parser_diagnostics' = check_range("TagValueOutOfBounds", i)
          /\ parsed_integers' =
                Append(parsed_integers,
                       [given |-> i, value |-> as_u32(i),
                        error |-> "TagValueOutOfBounds"])
    /\ Frame("tag")

\* parse_compact_id_value
parse_compact_id_value ==
    /\ Len(parsed_integers) < MaxParsedIntegers
    /\ \E i \in WrittenIntegers :
          /\ parser_diagnostics' = check_range("CompactIdOutOfBounds", i)
          /\ parsed_integers' =
                Append(parsed_integers,
                       [given |-> i, value |-> as_u32(i),
                        error |-> "CompactIdOutOfBounds"])
    /\ Frame("tag")

TagNext ==
    \/ parse_tag_value
    \/ parse_compact_id_value

(***************************************************************************)
(* SliceParser::module_start and SliceParser::module_def.                  *)
(*                                                                         *)
(* A module declaration is `prelude module A::B::C { definitions }`.  Its  *)
(* scoped identifier is held as the sequence of the identifiers that       *)
(* split("::") yields.  A Scope is the record of its module_scope and its  *)
(* parser_scope, each a stack of identifiers.                              *)
(***************************************************************************)
\* The most identifiers in the scoped identifier of a module declaration,
\* and the most definitions in its body.
MaxModuleIdentifiers == 3
MaxBodyDefinitions == 2

\* The declarations that are parsed.
ModuleDeclarations ==
    [identifier : SeqsUpTo({"A", "B"}, MaxModuleIdentifiers) \ {<<>>},
     attributes : {<<>>, <<"deprecated">>},
     comment : {Nothing, Just("doc")},
     definitions : SeqsUpTo({"S", "T"}, MaxBodyDefinitions)]

\* The scopes in which a declaration is met: the top of the file, and the
\* body of a module M.
ScopesBefore ==
    {[module_scope |-> m, parser_scope |-> m] : m \in {<<>>, <<"M">>}}

\* push_scope
push_scope(scope, identifier, is_module) ==
    [module_scope |-> IF is_module THEN Append(scope.module_scope, identifier)
                      ELSE scope.module_scope,
     parser_scope |-> Append(scope.parser_scope, identifier)]

\* pop_scope that pops nothing.
pop_scope_Keep(scope) == scope

\* pop_scope: the innermost context left, a module in module_scope too.
pop_scope(scope) ==
    [module_scope |->
        IF Len(scope.module_scope) = Len(scope.parser_scope)
        THEN SubSeq(scope.module_scope, 1, Len(scope.module_scope) - 1)
        ELSE scope.module_scope,
     parser_scope |-> SubSeq(scope.parser_scope, 1, Len(scope.parser_scope) - 1)]

\* `for module_identifier in identifier.value.split("::")`, from place i.
RECURSIVE PushAll(_, _, _)
PushAll(scope, identifier, i) ==
    IF i > Len(identifier) THEN scope
    ELSE PushAll(push_scope(scope, identifier[i], TRUE), identifier, i + 1)

\* Module::new
NewModule(identifier, scope, attributes, comment) ==
    [identifier |-> identifier, scope |-> scope, attributes |-> attributes,
     comment |-> comment, contents |-> <<>>]

\* Module::add_definition
add_definition(module, definition) ==
    [module EXCEPT !.contents = Append(@, definition)]

RECURSIVE AddDefinitions(_, _)
AddDefinitions(module, defs) ==
    IF defs = <<>> THEN module
    ELSE AddDefinitions(add_definition(module, Head(defs)), Tail(defs))

\* `for module in modules`: the enclosing modules identifier[1..i], from
\* the innermost outwards.  Gives the outermost module and the scope left.
RECURSIVE EncloseModules(_, _, _, _)
EncloseModules(last_module, scope, identifier, i) ==
    IF i = 0 THEN [module |-> last_module, scope |-> scope]
    ELSE LET popped == pop_scope(scope)
             new_module ==
                 add_definition(
                     NewModule(identifier[i], popped, <<>>, Nothing),
                     [kind |-> "Module", module |-> last_module])
         IN EncloseModules(new_module, popped, identifier, i - 1)

ModuleIdle ==
    /\ module_decl = [identifier |-> <<"A">>, attributes |-> <<>>,
                      comment |-> Nothing, definitions |-> <<>>]
    /\ scope_before = [module_scope |-> <<>>, parser_scope |-> <<>>]
    /\ current_scope = scope_before
    /\ body = <<>>
    /\ module_phase = "prelude"
    /\ module_result = Nothing

ModuleInit ==
    /\ module_decl \in ModuleDeclarations
    /\ scope_before \in ScopesBefore
    /\ current_scope = scope_before
    /\ body = <<>>
    /\ module_phase = "prelude"
    /\ module_result = Nothing

\* SliceParser::module_start
module_start ==
    /\ module_phase = "prelude"
    /\ current_scope' = PushAll(current_scope, module_decl.identifier, 1)
    /\ module_phase' = "body"
    /\ UNCHANGED <<module_decl, scope_before, body, module_result>>
    /\ Frame("module")

\* SliceParser::definition, for a struct of the body: it is constructed
\* in the current scope.
definition ==
    /\ module_phase = "body"
    /\ Len(body) < Len(module_decl.definitions)
    /\ body' = Append(body, [kind |-> "Struct",
                             identifier |-> module_decl.definitions[Len(body) + 1],
                             scope |-> current_scope])
    /\ UNCHANGED <<module_decl, scope_before, current_scope, module_phase,
                   module_result>>
    /\ Frame("module")

\* SliceParser::module_def
module_def ==
    /\ module_phase = "body"
    /\ Len(body) = Len(module_decl.definitions)
    /\ LET n == Len(module_decl.identifier)
           popped == pop_scope(current_scope)
           innermost ==
               AddDefinitions(
                   NewModule(module_decl.identifier[n], popped,
                             module_decl.attributes, module_decl.comment),
                   body)
           r == EncloseModules(innermost, popped, module_decl.identifier, n - 1)
       IN /\ module_result' = Just(r.module)
          /\ current_scope' = r.scope
    /\ module_phase' = "done"
    /\ UNCHANGED <<module_decl, scope_before, body>>
    /\ Frame("module")

ModuleNext ==
    \/ module_start
    \/ definition
    \/ module_def

(***************************************************************************)
(* validate_compilation_data and ValidatorVisitor.                         *)
(*                                                                         *)
(* A file is the sequence of its nodes in source order; a node is the set  *)
(* of the validators that report an error on it.  data.files is a map      *)
(* from the path of a file to the file; the place of a file in data_files  *)
(* is the place of its path among the inputs.  A diagnostic is a record of *)
(* the stage that reported it and, for a validator, of its file and node.  *)
(***************************************************************************)
\* The most files given, and the most nodes of a file.
MaxFiles == 2
MaxNodes == 1

\* ValidatorVisitor::new: the validators, in the order of the chain.
validation_functions ==
    <<"attribute", "comments", "dictionary", "enum", "identifier",
      "miscellaneous", "sequence", "tag">>

\* The nodes of the files: what the validators find wrong with them.
ValidatedNodes ==
    {{}, {"attribute"}, {"tag"}, {"comments", "identifier"},
     {"dictionary", "sequence"}}

ValidatedFiles == SeqsUpTo(ValidatedNodes, MaxNodes) \ {<<>>}

\* The diagnostics the reporter holds before validation: none, or an
\* error of the parser.
EarlierDiagnostics == {<<>>, <<[stage |-> "parser", level |-> "Error"]>>}

\* ValidatorVisitor::validate on one node: the validators from place i on.
RECURSIVE validate(_, _, _, _)
validate(reporter, file, node, i) ==
    IF i > Len(validation_functions) THEN reporter
    ELSE validate(
             IF validation_functions[i] \in data_files[file][node]
             THEN Append(reporter, [stage |-> validation_functions[i],
                                    level |-> "Error",
                                    file |-> file, node |-> node])
             ELSE reporter,
             file, node, i + 1)

\* slice_file.visit_with(&mut validator): the nodes from place n on.
RECURSIVE visit_with(_, _, _)
visit_with(reporter, file, n) ==
    IF n > Len(data_files[file]) THEN reporter
    ELSE visit_with(validate(reporter, file, n, 1), file, n + 1)

\* DiagnosticReporter::has_errors
reporter_has_errors(reporter) ==
    \E i \in DOMAIN reporter : reporter[i].level = "Error"

ValidationIdle ==
    /\ data_files = <<>>
    /\ has_cycle = FALSE
    /\ validation_stage = "start"
    /\ visited_files = <<>>
    /\ contents_checked = FALSE
    /\ diagnostic_reporter = <<>>

ValidationInit ==
    /\ data_files \in SeqsUpTo(ValidatedFiles, MaxFiles) \ {<<>>}
    /\ has_cycle \in BOOLEAN
    /\ validation_stage = "start"
    /\ visited_files = <<>>
    /\ contents_checked = FALSE
    /\ diagnostic_reporter \in EarlierDiagnostics

\* cycle_detection::detect_cycles(..) and the return when the reporter has
\* errors.
detect_cycles_or_return ==
    /\ validation_stage = "start"
    /\ LET reporter ==
               IF has_cycle
               THEN Append(diagnostic_reporter,
                           [stage |-> "cycle_detection", level |-> "Error"])
               ELSE diagnostic_reporter
       IN /\ diagnostic_reporter' = reporter
          /\ validation_stage' = IF reporter_has_errors(reporter)
                                 THEN "returned" ELSE "visiting"
    /\ UNCHANGED <<data_files, has_cycle, visited_files, contents_checked>>
    /\ Frame("validation")

\* One turn of `for slice_file in data.files.values()`: the map yields
\* its files in an order the program does not control.
visit_file ==
    /\ validation_stage = "visiting"
    /\ \E file \in DOMAIN data_files \ Range(visited_files) :
          /\ visited_files' = Append(visited_files, file)
          /\ diagnostic_reporter' = visit_with(diagnostic_reporter, file, 1)
    /\ UNCHANGED <<data_files, has_cycle, validation_stage, contents_checked>>
    /\ Frame("validation")

\* validate_module_contents(&mut data) and Ok(data), after the last file.
check_contents_and_return ==
    /\ validation_stage = "visiting"
    /\ Range(visited_files) = DOMAIN data_files
    /\ contents_checked' = TRUE
    /\ validation_stage' = "returned"
    /\ UNCHANGED <<data_files, has_cycle, visited_files, diagnostic_reporter>>
    /\ Frame("validation")

ValidationNext ==
    \/ detect_cycles_or_return
    \/ visit_file
    \/ check_contents_and_return

(***************************************************************************)
(* The constructors of the containers (src/src/parsers/slice/grammar.rs):  *)
(* construct_struct, construct_exception, construct_class,                 *)
(* construct_interface, construct_operation and construct_enum move the    *)
(* children they are given into the AST with set_children_for_impl.  An    *)
(* owned child is a record with the identity of its object, its identifier *)
(* and its parent handle; a weak pointer to a child is its place in the    *)
(* AST; the pointer to the container is its identifier.                    *)
(***************************************************************************)
MaxChildren == 2

MaxEarlierElements == 1

ChildIdentifiers == {"a", "b"}

\* WeakPtr::create_uninitialized(): the parent of a child that no container
\* has patched.
create_uninitialized == Nothing

\* The children a grammar rule hands to a constructor: construct_field,
\* construct_parameter, construct_enumerator and construct_operation have
\* built them with an uninitialized parent.  first is the identity of the
\* first object.
OwnedChildren(names, first) ==
    [i \in 1..Len(names) |->
        [object |-> first + i - 1, identifier |-> names[i],
         parent |-> create_uninitialized]]

ChildLists == SeqsUpTo(ChildIdentifiers, MaxChildren)

\* The elements an earlier definition of the file has left in the AST.
EarlierElements ==
    {[i \in 1..n |-> [object |-> 0 - i, identifier |-> "e",
                      parent |-> Just("Earlier")]] : n \in 0..MaxEarlierElements}

\* Ast::add_named_element: the element is pushed onto the AST and a weak
\* pointer to it is returned.
add_named_element(elements, child) ==
    [elements |-> Append(elements, child), weak_ptr |-> Len(elements) + 1]

\* A mutant of set_children_for_impl: the parent of a child is not set.
RECURSIVE set_children_for_impl_NoParent(_, _, _, _)
set_children_for_impl_NoParent(parent_ptr, children, elements, pointers) ==
    IF children = <<>>
    THEN [elements |-> elements, pointers |-> pointers]
    ELSE LET added == add_named_element(elements, Head(children))
         IN set_children_for_impl_NoParent(parent_ptr, Tail(children),
                added.elements, Append(pointers, added.weak_ptr))

\* set_children_for_impl: for each child in turn, the parent of the child
\* is set, the child is moved into the AST, and the weak pointer to it is
\* pushed onto the list of the parent.  pointers is the list of the parent
\* so far; the result is the AST and the list after the loop.
RECURSIVE set_children_for_impl(_, _, _, _)
set_children_for_impl(parent_ptr, children, elements, pointers) ==
    IF children = <<>>
    THEN [elements |-> elements, pointers |-> pointers]
    ELSE LET child == [Head(children) EXCEPT !.parent = Just(parent_ptr)]
             added == add_named_element(elements, child)
         IN set_children_for_impl(parent_ptr, Tail(children),
                added.elements, Append(pointers, added.weak_ptr))

ContainerInit ==
    /\ node_ast \in EarlierElements
    /\ arguments = Nothing
    /\ container = Nothing

ContainerIdle ==
    /\ node_ast = <<>>
    /\ arguments = Nothing
    /\ container = Nothing

\* construct_struct: the struct is created with no fields, and
\* set_fields_for! adds the fields.
construct_struct ==
    /\ container = Nothing
    /\ \E names \in ChildLists :
          LET given == OwnedChildren(names, 1)
              set == set_children_for_impl("Struct", given, node_ast, <<>>)
          IN /\ arguments' = Just([fields |-> given])
             /\ node_ast' = set.elements
             /\ container' =
                    Just([kind |-> "Struct", fields |-> set.pointers])
    /\ Frame("container")

\* construct_exception: as construct_struct.
construct_exception ==
    /\ container = Nothing
    /\ \E names \in ChildLists :
          LET given == OwnedChildren(names, 1)
              set == set_children_for_impl("Exception", given, node_ast, <<>>)
          IN /\ arguments' = Just([fields |-> given])
             /\ node_ast' = set.elements
             /\ container' =
                    Just([kind |-> "Exception", fields |-> set.pointers])
    /\ Frame("container")

\* construct_class: as construct_struct.
construct_class ==
    /\ container = Nothing
    /\ \E names \in ChildLists :
          LET given == OwnedChildren(names, 1)
              set == set_children_for_impl("Class", given, node_ast, <<>>)
          IN /\ arguments' = Just([fields |-> given])
             /\ node_ast' = set.elements
             /\ container' =
                    Just([kind |-> "Class", fields |-> set.pointers])
    /\ Frame("container")

\* construct_interface: the interface is created with no operations, and
\* set_children_for! adds the operations.
construct_interface ==
    /\ container = Nothing
    /\ \E names \in ChildLists :
          LET given == OwnedChildren(names, 1)
              set == set_children_for_impl("Interface", given, node_ast, <<>>)
          IN /\ arguments' = Just([operations |-> given])
             /\ node_ast' = set.elements
             /\ container' =
                    Just([kind |-> "Interface", operations |-> set.pointers])
    /\ Frame("container")

\* construct_operation: a missing return type is an empty list; the
\* operation is created with no parameters and no return members, and
\* set_children_for! adds the parameters and then the return members.
construct_operation ==
    /\ container = Nothing
    /\ \E names \in ChildLists, return_type \in {Nothing} \cup {Just(r) : r \in ChildLists} :
          LET parameters == OwnedChildren(names, 1)
              return_members ==
                  IF return_type = Nothing
                  THEN <<>>
                  ELSE OwnedChildren(return_type[1], Len(names) + 1)
              first == set_children_for_impl("Operation", parameters,
                                             node_ast, <<>>)
              second == set_children_for_impl("Operation", return_members,
                                              first.elements, <<>>)
          IN /\ arguments' = Just([parameters |-> parameters,
                                   return_type |-> return_members])
             /\ node_ast' = second.elements
             /\ container' =
                    Just([kind |-> "Operation",
                          parameters |-> first.pointers,
                          return_type |-> second.pointers])
    /\ Frame("container")

\* construct_enum, for the enumerators it is given: the enum is created
\* with no enumerators, and set_children_for! adds the enumerators (the
\* reset of parser.last_enumerator_value is in the action construct_enum).
construct_enum_children ==
    /\ container = Nothing
    /\ \E names \in ChildLists :
          LET given == OwnedChildren(names, 1)
              set == set_children_for_impl("Enum", given, node_ast, <<>>)
          IN /\ arguments' = Just([enumerators |-> given])
             /\ node_ast' = set.elements
             /\ container' =
                    Just([kind |-> "Enum", enumerators |-> set.pointers])
    /\ Frame("container")

ContainerNext ==
    \/ construct_struct
    \/ construct_exception
    \/ construct_class
    \/ construct_interface
    \/ construct_operation
    \/ construct_enum_children

(***************************************************************************)
(* AttributeKind::new (src/src/grammar/elements/attribute.rs).  A string   *)
(* is the sequence of its characters; the words Args, Return, Compact and  *)
(* Sliced are written as one symbol each.                                  *)
(***************************************************************************)
MaxArguments == 2

MaxArgumentLength == 2

Characters == {"W", "w", "1"}

\* Warning::all_codes(): the closed set of the warning codes, written in
\* upper case.
all_codes == {<<"W", "1">>, <<"1", "W">>}

\* The valid arguments for the compress attribute.
COMPRESS_ARGS == {<<"Args">>, <<"Return">>}

\* The arguments ClassFormat::from_str accepts.
ClassFormats == {<<"Compact">>, <<"Sliced">>}

\* The directives: the five AttributeKind::new knows, and one it does not.
Directives ==
    {"compress", "oneway", "deprecated", "format", "allow", "cs::readonly"}

\* The arguments that can be written in an attribute.
WrittenArguments ==
    (SeqsUpTo(Characters, MaxArgumentLength) \ {<<>>})
        \cup COMPRESS_ARGS \cup ClassFormats

\* A mutant of to_uppercase: the string is left as it is.
to_uppercase_Same(arg) == arg

\* str::to_uppercase
to_uppercase(arg) ==
    [i \in 1..Len(arg) |-> IF arg[i] = "w" THEN "W" ELSE arg[i]]

\* What the loop reports for one argument: nothing for a warning code, an
\* InvalidWarningCode error with a note for an argument whose upper case is
\* a warning code, an InvalidWarningCode error without notes otherwise.
ReportsOfArgument(arg) ==
    IF arg \notin all_codes
    THEN LET uppercase == to_uppercase(arg)
         IN IF uppercase \in all_codes
            THEN <<[kind |-> "InvalidWarningCode", code |-> arg,
                    notes |-> <<[did_you_mean |-> uppercase]>>]>>
            ELSE <<[kind |-> "InvalidWarningCode", code |-> arg,
                    notes |-> <<>>]>>
    ELSE <<>>

\* for arg in arguments { ... }
RECURSIVE ReportsOfArguments(_)
ReportsOfArguments(args) ==
    IF args = <<>>
    THEN <<>>
    ELSE ReportsOfArgument(Head(args)) \o ReportsOfArguments(Tail(args))

\* arguments.iter().filter(..).collect(): the arguments that are not in
\* the set of the valid ones, in their order.
RECURSIVE InvalidArguments(_, _)
InvalidArguments(args, valid) ==
    IF args = <<>>
    THEN <<>>
    ELSE (IF Head(args) \in valid THEN <<>> ELSE <<Head(args)>>)
             \o InvalidArguments(Tail(args), valid)

\* One ArgumentNotSupported error, with its note, for each argument.
ArgumentsNotSupported(args, for_directive) ==
    [i \in 1..Len(args) |->
        [kind |-> "ArgumentNotSupported", argument |-> args[i],
         directive |-> for_directive, notes |-> <<"valid arguments">>]]

\* let unmatched_attribute = AttributeKind::Other { directive, arguments }
unmatched_attribute ==
    [kind |-> "Other", directive |-> directive,
     arguments |-> attribute_arguments]

AttributeInit ==
    /\ directive \in Directives
    /\ attribute_arguments \in SeqsUpTo(WrittenArguments, MaxArguments)
    /\ attribute_kind = Nothing
    /\ attribute_reports = <<>>

AttributeIdle ==
    /\ directive = "allow"
    /\ attribute_arguments = <<>>
    /\ attribute_kind = Nothing
    /\ attribute_reports = <<>>

\* AttributeKind::new, directive compress: with no arguments, or with
\* valid arguments only, the kind is Compress; otherwise each invalid
\* argument is reported and the unmatched attribute is returned.
new_compress ==
    /\ attribute_kind = Nothing
    /\ directive = "compress"
    /\ LET invalid_arguments ==
               InvalidArguments(attribute_arguments, COMPRESS_ARGS)
       IN IF invalid_arguments = <<>>
          THEN /\ attribute_kind' =
                      Just([kind |-> "Compress",
                            compress_args |->
                                <<"Args">> \in Range(attribute_arguments),
                            compress_return |->
                                <<"Return">> \in Range(attribute_arguments)])
               /\ UNCHANGED attribute_reports
          ELSE /\ attribute_reports' =
                      attribute_reports
                          \o ArgumentsNotSupported(invalid_arguments, "compress")
               /\ attribute_kind' = Just(unmatched_attribute)
    /\ UNCHANGED <<directive, attribute_arguments>>
    /\ Frame("attribute")

\* AttributeKind::new, directive oneway: Oneway without arguments, and
\* TooManyArguments and the unmatched attribute with arguments.
new_oneway ==
    /\ attribute_kind = Nothing
    /\ directive = "oneway"
    /\ IF attribute_arguments = <<>>
       THEN /\ attribute_kind' = Just([kind |-> "Oneway"])
            /\ UNCHANGED attribute_reports
       ELSE /\ attribute_reports' =
                   Append(attribute_reports,
                          [kind |-> "TooManyArguments", expected |-> "oneway",
                           notes |-> <<"no arguments">>])
            /\ attribute_kind' = Just(unmatched_attribute)
    /\ UNCHANGED <<directive, attribute_arguments>>
    /\ Frame("attribute")

\* AttributeKind::new, directive deprecated: Deprecated with no reason or
\* with the one argument as the reason, and TooManyArguments and the
\* unmatched attribute with more arguments.
new_deprecated ==
    /\ attribute_kind = Nothing
    /\ directive = "deprecated"
    /\ IF Len(attribute_arguments) <= 1
       THEN /\ attribute_kind' =
                   Just([kind |-> "Deprecated",
                         reason |-> IF attribute_arguments = <<>>
                                    THEN Nothing
                                    ELSE Just(attribute_arguments[1])])
            /\ UNCHANGED attribute_reports
       ELSE /\ attribute_reports' =
                   Append(attribute_reports,
                          [kind |-> "TooManyArguments",
                           expected |-> "deprecated",
                           notes |-> <<"at most one argument">>])
            /\ attribute_kind' = Just(unmatched_attribute)
    /\ UNCHANGED <<directive, attribute_arguments>>
    /\ Frame("attribute")

\* AttributeKind::new, directive format: MissingRequiredArgument without
\* arguments, ArgumentNotSupported for each argument that is no class
\* format, in both cases with the unmatched attribute; otherwise
\* ClassFormat with the first argument.
new_format ==
    /\ attribute_kind = Nothing
    /\ directive = "format"
    /\ LET invalid_args == InvalidArguments(attribute_arguments, ClassFormats)
       IN IF attribute_arguments = <<>>
          THEN /\ attribute_reports' =
                      Append(attribute_reports,
                             [kind |-> "MissingRequiredArgument",
                              argument |-> "format(<arguments>)",
                              notes |-> <<"valid arguments">>])
               /\ attribute_kind' = Just(unmatched_attribute)
          ELSE IF invalid_args # <<>>
          THEN /\ attribute_reports' =
                      attribute_reports
                          \o ArgumentsNotSupported(invalid_args, "format")
               /\ attribute_kind' = Just(unmatched_attribute)
          ELSE /\ attribute_kind' =
                      Just([kind |-> "ClassFormat",
                            format |-> attribute_arguments[1]])
               /\ UNCHANGED attribute_reports
    /\ UNCHANGED <<directive, attribute_arguments>>
    /\ Frame("attribute")

\* AttributeKind::new, directive allow: each argument is checked in turn,
\* and the kind is Allow with all the arguments, valid or not.
new_allow ==
    /\ attribute_kind = Nothing
    /\ directive = "allow"
    /\ attribute_reports' =
           attribute_reports \o ReportsOfArguments(attribute_arguments)
    /\ attribute_kind' =
           Just([kind |-> "Allow", warning_codes |-> attribute_arguments])
    /\ UNCHANGED <<directive, attribute_arguments>>
    /\ Frame("attribute")

\* AttributeKind::new, another directive: `_ => None`, and the unmatched
\* attribute is returned.
new_other ==
    /\ attribute_kind = Nothing
    /\ directive \notin {"compress", "oneway", "deprecated", "format", "allow"}
    /\ attribute_kind' = Just(unmatched_attribute)
    /\ UNCHANGED <<directive, attribute_arguments, attribute_reports>>
    /\ Frame("attribute")

AttributeNext ==
    \/ new_compress
    \/ new_oneway
    \/ new_deprecated
    \/ new_format
    \/ new_allow
    \/ new_other

(***************************************************************************)
(* SliceFile::new (src/src/slice_file.rs).  A text is the sequence of its  *)
(* characters: "LF" is '\n', "CR" is '\r', "a" is a letter of one byte and *)
(* "e'" a letter of two bytes in UTF-8.                                    *)
(***************************************************************************)
MaxTextLength == 3

TextCharacters == {"LF", "CR", "a", "e'"}

Texts == SeqsUpTo(TextCharacters, MaxTextLength)

\* for (index, character) in raw_text.chars().enumerate(): the line
\* positions after the characters from place i on, where positions are
\* those found so far.  enumerate() counts the characters from 0, so index
\* is i - 1.
RECURSIVE LinePositionsFrom(_, _, _, _)
LinePositionsFrom(text, i, positions, last_char_was_carriage_return) ==
    IF i > Len(text)
    THEN positions
    ELSE LET index == i - 1
             character == text[i]
         IN IF character = "LF"
            THEN LinePositionsFrom(text, i + 1,
                                   Append(positions, index + 1), FALSE)
            ELSE LinePositionsFrom(text, i + 1,
                    IF last_char_was_carriage_return
                    THEN Append(positions, index)
                    ELSE positions,
                    character = "CR")

SliceFileInit ==
    /\ raw_text \in Texts
    /\ line_positions = <<>>

SliceFileIdle ==
    /\ raw_text = <<>>
    /\ line_positions = <<>>

\* SliceFile::new: the first line starts at 0, and the loop adds the
\* starts of the other lines.
new_slice_file ==
    /\ line_positions = <<>>
    /\ line_positions' = LinePositionsFrom(raw_text, 1, <<0>>, FALSE)
    /\ UNCHANGED raw_text
    /\ Frame("slice_file")

SliceFileNext ==
    \/ new_slice_file

(***************************************************************************)
(* TypeRef::supported_encodings (src/src/grammar/elements/type_ref.rs) on  *)
(* the references to primitives, classes, structs and sequences.           *)
(***************************************************************************)
\* The definitions a type reference can lead to: a primitive of the table,
\* or a class, a struct or a sequence with the set of supported encodings
\* patched into it.
ReferencedDefinitions ==
    [type : {"Primitive"}, primitive : TablePrimitives]
        \cup [type : {"Class", "Struct", "Sequence"},
              supported_encodings : SUBSET Encodings]

TypeRefs == TypeRefsOf(ReferencedDefinitions)

TypeRefInit ==
    /\ referenced_type \in TypeRefs
    /\ reference_encodings = Nothing

TypeRefIdle ==
    /\ referenced_type = [is_optional |-> FALSE,
                          definition |-> [type |-> "Primitive",
                                          primitive |-> "bool"]]
    /\ reference_encodings = Nothing

\* A call of TypeRef::supported_encodings.
call_supported_encodings ==
    /\ reference_encodings = Nothing
    /\ reference_encodings' = Just(supported_encodings(referenced_type))
    /\ UNCHANGED referenced_type
    /\ Frame("type_ref")

TypeRefNext ==
    \/ call_supported_encodings

(***************************************************************************)
(* TypeRef::downcast (src/src/grammar/elements/type_ref.rs) in the         *)
(* constructors that take a base type or an underlying type.  The          *)
(* definition of a type reference is Nothing while the reference is not    *)
(* patched, and the kind of its definition once it is: at the time of the  *)
(* parse only the references to primitives and to anonymous types are      *)
(* patched.                                                                *)
(***************************************************************************)
MaxBases == 2

ParsedTypeRefs ==
    [is_optional : BOOLEAN,
     definition : {Nothing} \cup {Just(k) : k \in {"Primitive", "Sequence", "Dictionary"}}]

\* TypeRef::downcast::<U>: a reference that is not patched passes with an
\* uninitialized pointer; a patched one passes when its definition is a U
\* and is an Err when it is not.
downcast(type_ref, U) ==
    IF type_ref.definition # Nothing
    THEN IF type_ref.definition[1] = U
         THEN [ok |-> TRUE, type_ref |-> type_ref]
         ELSE [ok |-> FALSE]
    ELSE [ok |-> TRUE,
          type_ref |-> [type_ref EXCEPT !.definition = create_uninitialized]]

\* How a constructor ends that unwraps the downcast of each reference: it
\* panics when a downcast is an Err, and returns the references downcast
\* otherwise.  Nothing is reported in either case.
Unwrapped(type_refs, U) ==
    IF \E i \in DOMAIN type_refs : ~downcast(type_refs[i], U).ok
    THEN [outcome |-> "panicked", U |-> U, reported |-> <<>>]
    ELSE [outcome |-> "returned", U |-> U, reported |-> <<>>,
          bases |-> [i \in DOMAIN type_refs |->
                        downcast(type_refs[i], U).type_ref]]

DowncastInit ==
    /\ base_types \in SeqsUpTo(ParsedTypeRefs, MaxBases)
    /\ construction = Nothing

DowncastIdle ==
    /\ base_types = <<>>
    /\ construction = Nothing

\* construct_interface, for its bases:
\* bases.unwrap_or_default().into_iter()
\*      .map(|base| base.downcast::<Interface>().unwrap())
construct_interface_bases ==
    /\ construction = Nothing
    /\ construction' = Just(Unwrapped(base_types, "Interface"))
    /\ UNCHANGED base_types
    /\ Frame("downcast")

\* construct_class, for its base:
\* base_type.map(|type_ref| type_ref.downcast::<Class>().unwrap())
construct_class_base ==
    /\ construction = Nothing
    /\ Len(base_types) <= 1
    /\ construction' = Just(Unwrapped(base_types, "Class"))
    /\ UNCHANGED base_types
    /\ Frame("downcast")

\* construct_exception, for its base:
\* base_type.map(|type_ref| type_ref.downcast::<Exception>().unwrap())
construct_exception_base ==
    /\ construction = Nothing
    /\ Len(base_types) <= 1
    /\ construction' = Just(Unwrapped(base_types, "Exception"))
    /\ UNCHANGED base_types
    /\ Frame("downcast")

\* construct_enum, for its underlying type:
\* underlying_type.map(|type_ref| type_ref.downcast::<Primitive>().unwrap())
construct_enum_underlying ==
    /\ construction = Nothing
    /\ Len(base_types) <= 1
    /\ construction' = Just(Unwrapped(base_types, "Primitive"))
    /\ UNCHANGED base_types
    /\ Frame("downcast")

\* SliceParser::enum_start with an underlying type: the downcast is
\* matched, and the arm of the Err is panic!("MUST BE A PRIMITIVE TODO").
enum_start ==
    /\ construction = Nothing
    /\ Len(base_types) = 1
    /\ construction' =
           Just(IF downcast(base_types[1], "Primitive").ok
                THEN [outcome |-> "returned", U |-> "Primitive",
                      reported |-> <<>>,
                      bases |-> <<downcast(base_types[1], "Primitive").type_ref>>]
                ELSE [outcome |-> "panicked", U |-> "Primitive",
                      reported |-> <<>>])
    /\ UNCHANGED base_types
    /\ Frame("downcast")

DowncastNext ==
    \/ construct_interface_bases
    \/ construct_class_base
    \/ construct_exception_base
    \/ construct_enum_underlying
    \/ enum_start

(***************************************************************************)
(* The readers of TypeRef::definition after the patching of the            *)
(* references: check_dictionary_key_type, TypeRef::supported_encodings and *)
(* TypeRef::min_wire_size.  The definition of a reference is Nothing when  *)
(* the patcher has left it unpatched.                                      *)
(***************************************************************************)
\* The definitions a patched reference leads to.
PatchedDefinitions == {d \in ReferencedDefinitions : d.type # "Struct"}

ReadTypeRefs ==
    TypeRefsOf({Nothing} \cup {Just(d) : d \in PatchedDefinitions})

\* TypeRef::definition: self.definition.borrow().  The borrow of an
\* initialized pointer gives its definition; the borrow of an
\* uninitialized pointer has no definition to give: it panics, or it reads
\* whatever is found behind the pointer.
borrow(pointer) ==
    IF pointer # create_uninitialized
    THEN {[panicked |-> FALSE, definition |-> pointer[1]]}
    ELSE {[panicked |-> TRUE]}
             \cup {[panicked |-> FALSE, definition |-> d] :
                      d \in PatchedDefinitions}

\* How a reader ends.
ReadEnded(reader, outcome, result, reported_errors) ==
    Just([reader |-> reader, outcome |-> outcome, result |-> result,
          reported |-> reported_errors])

ReaderInit ==
    /\ read_ref \in ReadTypeRefs
    /\ read_outcome = Nothing

ReaderIdle ==
    /\ read_ref = [is_optional |-> FALSE, definition |-> Nothing]
    /\ read_outcome = Nothing

\* check_dictionary_key_type on the key type: an optional key is reported
\* before the definition is read; otherwise the definition is read and
\* matched.
read_key_type ==
    /\ read_outcome = Nothing
    /\ IF read_ref.is_optional
       THEN LET checked == check_dictionary_key_type(
                               [read_ref EXCEPT !.definition = <<>>], <<>>)
            IN read_outcome' = ReadEnded("check_dictionary_key_type",
                                   "returned", <<checked.result>>,
                                   checked.errors)
       ELSE \E read \in borrow(read_ref.definition) :
               read_outcome' =
                   IF read.panicked
                   THEN ReadEnded("check_dictionary_key_type", "panicked",
                                  <<>>, <<>>)
                   ELSE LET checked == check_dictionary_key_type(
                                [read_ref EXCEPT
                                    !.definition = read.definition], <<>>)
                        IN ReadEnded("check_dictionary_key_type",
                                     "returned", <<checked.result>>,
                                     checked.errors)
    /\ UNCHANGED read_ref
    /\ Frame("reader")

\* TypeRef::supported_encodings: the definition is read first.
read_supported_encodings ==
    /\ read_outcome = Nothing
    /\ \E read \in borrow(read_ref.definition) :
          read_outcome' =
              IF read.panicked
              THEN ReadEnded("supported_encodings", "panicked", <<>>, <<>>)
              ELSE ReadEnded("supported_encodings", "returned",
                       <<supported_encodings(
                           [read_ref EXCEPT !.definition = read.definition])>>,
                       <<>>)
    /\ UNCHANGED read_ref
    /\ Frame("reader")

\* TypeRef::min_wire_size: an optional reference reads its definition and
\* takes 1 for a class and for AnyClass and 0 otherwise; a reference that
\* is not optional dereferences to its definition, whose min_wire_size it
\* returns.
read_min_wire_size ==
    /\ read_outcome = Nothing
    /\ \E read \in borrow(read_ref.definition) :
          read_outcome' =
              IF read.panicked
              THEN ReadEnded("min_wire_size", "panicked", <<>>, <<>>)
              ELSE IF read_ref.is_optional
              THEN ReadEnded("min_wire_size", "returned",
                       <<IF \/ read.definition.type = "Class"
                            \/ /\ read.definition.type = "Primitive"
                               /\ read.definition.primitive = "AnyClass"
                         THEN 1 ELSE 0>>, <<>>)
              ELSE ReadEnded("min_wire_size", "returned",
                       <<[min_wire_size_of |-> read.definition]>>, <<>>)
    /\ UNCHANGED read_ref
    /\ Frame("reader")

ReaderNext ==
    \/ read_key_type
    \/ read_supported_encodings
    \/ read_min_wire_size

(***************************************************************************)
(* ValidatorVisitor::visit_type_alias (src/src/validators/mod.rs) with the *)
(* dictionary validator (src/src/validators/dictionary.rs) and the         *)
(* sequence validator, on a type alias whose underlying type nests         *)
(* sequences and dictionaries.                                             *)
(***************************************************************************)
MaxNesting == 3

\* A reference that is not optional.
RefTo(referenced) == [is_optional |-> FALSE, definition |-> referenced]

AliasPrimitives ==
    {[type |-> "Primitive", primitive |-> p] : p \in {"int32", "float32"}}

\* The types nested at most n deep: the primitives, the sequences of
\* nested types, and the dictionaries from a primitive to a nested type.
RECURSIVE NestedTypes(_)
NestedTypes(n) ==
    IF n = 0
    THEN AliasPrimitives
    ELSE LET inner == NestedTypes(n - 1)
         IN AliasPrimitives
            \cup {[type |-> "Sequence", element_type |-> RefTo(e)] :
                     e \in inner}
            \cup {[type |-> "Dictionary", key_type |-> RefTo(k),
                   value_type |-> RefTo(v)] :
                     k \in AliasPrimitives, v \in inner}

\* has_allowed_key_type(&[dictionary]): the key type of the dictionary is
\* checked, and nothing else of it.
dictionary_validator(dictionary) ==
    check_dictionary_key_type(dictionary.key_type, <<"key">>).errors

\* The sequence validator on one sequence: the validator is entered again
\* on the element type.
RECURSIVE sequence_validator(_)
sequence_validator(sequence) ==
    LET element == sequence.element_type.definition
    IN CASE element.type = "Sequence" -> sequence_validator(element)
         [] element.type = "Dictionary" -> dictionary_validator(element)
         [] OTHER -> <<>>

TypeAliasInit ==
    /\ type_alias \in {[underlying |-> RefTo(t)] : t \in NestedTypes(MaxNesting)}
    /\ type_alias_visited = FALSE
    /\ type_alias_reports = <<>>

TypeAliasIdle ==
    /\ type_alias =
           [underlying |-> RefTo([type |-> "Primitive", primitive |-> "int32"])]
    /\ type_alias_visited = FALSE
    /\ type_alias_reports = <<>>

\* visit_type_alias: in the order of the chain, the dictionary validators
\* get the underlying type when it is a dictionary, and the sequence
\* validators get it when it is a sequence.
visit_type_alias ==
    /\ ~type_alias_visited
    /\ LET underlying == type_alias.underlying.definition
       IN type_alias_reports' =
              type_alias_reports
              \o (IF underlying.type = "Dictionary"
                  THEN dictionary_validator(underlying) ELSE <<>>)
              \o (IF underlying.type = "Sequence"
                  THEN sequence_validator(underlying) ELSE <<>>)
    /\ type_alias_visited' = TRUE
    /\ UNCHANGED type_alias
    /\ Frame("type_alias")

TypeAliasNext ==
    \/ visit_type_alias

(***************************************************************************)
(* The mode declarations of a file                                         *)
(* (src/src/parsers/slice/grammar.rs): construct_file_compilation_mode     *)
(* and handle_file_compilation_mode.  The span of a declaration is its     *)
(* place among the declarations of the file.                               *)
(***************************************************************************)
MaxModeDeclarations == 3

WrittenModes == {"Slice1", "Slice2", "Slice3"}

\* construct_file_compilation_mode: the mode of the identifier, or for an
\* identifier that names no mode an InvalidCompilationMode error at the
\* identifier and the default mode.
construct_file_compilation_mode(i, span) ==
    IF i \in {"Slice1", "Slice2"}
    THEN [mode |-> [version |-> i, span |-> span], diagnostics |-> <<>>]
    ELSE [mode |-> [version |-> "Slice2", span |-> span],
          diagnostics |-> <<[kind |-> "InvalidCompilationMode", mode |-> i,
                             span |-> span, notes |-> <<Nothing>>]>>]

ModeInit ==
    /\ mode_declarations \in SeqsUpTo(WrittenModes, MaxModeDeclarations)
    /\ declarations_handled = 0
    /\ old_mode = Nothing
    /\ file_compilation_mode = "Slice2"
    /\ file_diagnostics = <<>>

ModeIdle ==
    /\ mode_declarations = <<>>
    /\ declarations_handled = 0
    /\ old_mode = Nothing
    /\ file_compilation_mode = "Slice2"
    /\ file_diagnostics = <<>>

\* The next mode declaration of the file: the mode is constructed, and
\* handle_file_compilation_mode reports MultipleCompilationModes when a
\* mode was given before, with the span of the old mode as the span of the
\* error and as the span of its note; the new mode replaces the old.
handle_file_compilation_mode ==
    /\ declarations_handled < Len(mode_declarations)
    /\ LET span == declarations_handled + 1
           constructed ==
               construct_file_compilation_mode(mode_declarations[span], span)
           mode == constructed.mode
       IN /\ file_diagnostics' =
                 file_diagnostics \o constructed.diagnostics
                 \o (IF old_mode # Nothing
                     THEN LET old_span == old_mode[1].span
                          IN <<[kind |-> "MultipleCompilationModes",
                                span |-> old_span,
                                notes |-> <<Just(old_span)>>]>>
                     ELSE <<>>)
          /\ file_compilation_mode' = mode.version
          /\ old_mode' = Just(mode)
          /\ declarations_handled' = span
    /\ UNCHANGED mode_declarations
    /\ Frame("mode")

ModeNext ==
    \/ handle_file_compilation_mode

(***************************************************************************)
(* The recursive check of a dictionary key.                                *)
(*                                                                         *)
(* The named types are the types of the cycle detector that are structs or *)
(* classes whose one field, when they have one, has a named type.  A type  *)
(* reference is the type it names (0 for a primitive that may be a key)    *)
(* and whether it is optional; the fields are not optional.  A call of     *)
(* check_dictionary_key_type that is open is a frame of key_stack: the     *)
(* reference it checks and whether it is at its start ("enter") or in the  *)
(* loop over the members of a compact struct ("member").                   *)
(***************************************************************************)
KeyTypeDefinitions ==
    {def \in TypeDefinitions :
        /\ def.kind \in {"Struct", "Class"}
        /\ def.refers.form \in {"None", "Named"}}

KeyTypeRefs == [is_optional : BOOLEAN, target : TypeIds \cup {0}]

\* The deepest the calls can nest when no struct contains itself: one
\* call for each named type and one for a primitive at the end.
MaxKeyDepth == MaxTypes + 1

\* member.data_type() of the one member of struct_def.
data_type(def) == [is_optional |-> FALSE, target |-> def.refers.target]

\* `return value` of the call on top: the call is closed.
ReturnFromCall(value, new_errors) ==
    /\ key_stack' = SubSeq(key_stack, 1, Len(key_stack) - 1)
    /\ key_result' = Just(value)
    /\ key_reports' = key_reports \o new_errors

KeyCheckIdle ==
    /\ key_types = <<>>
    /\ compact_structs = {}
    /\ checked_key = <<>>
    /\ key_stack = <<>>
    /\ key_result = Nothing
    /\ key_stage = "idle"
    /\ key_reports = <<>>
    /\ key_steps = 0

KeyCheckInit ==
    /\ key_types \in [TypeIds -> KeyTypeDefinitions]
    /\ compact_structs \in SUBSET {i \in TypeIds : key_types[i].kind = "Struct"}
    /\ checked_key \in KeyTypeRefs
    /\ key_stack = <<>>
    /\ key_result = Nothing
    /\ key_stage = "start"
    /\ key_reports = <<>>
    /\ key_steps = 0

\* validate_compilation_data up to the visit of the dictionary: the cycle
\* detection, the early return when it reported, and has_allowed_key_type
\* calling check_dictionary_key_type(&dictionary.checked_key).
validate_key_compilation_data ==
    /\ key_stage = "start"
    /\ LET cycles == detect_cycles(key_types) IN
       IF cycles # <<>>
       THEN /\ key_stage' = "returned"
            /\ key_reports' = [i \in 1..Len(cycles) |-> "CycleDetected"]
            /\ UNCHANGED key_stack
       ELSE /\ key_stage' = "visiting"
            /\ key_stack' = <<[ref |-> checked_key, pc |-> "enter"]>>
            /\ UNCHANGED key_reports
    /\ UNCHANGED <<key_types, compact_structs, checked_key, key_result>>
    /\ key_steps' = key_steps + 1
    /\ Frame("keycheck")

\* The call of check_dictionary_key_type on the member of the compact
\* struct type_ref names, when the calls already nest MaxKeyDepth deep:
\* the recursion has no end and the stack of the program runs out.
StackExhausted(type_ref) ==
    /\ ~type_ref.is_optional
    /\ type_ref.target \in compact_structs
    /\ key_types[type_ref.target].refers.form = "Named"
    /\ Len(key_stack) >= MaxKeyDepth

\* check_dictionary_key_type from its start to its return or to its call
\* of itself on the member of a compact struct.
call_check_dictionary_key_type ==
    /\ key_stage = "visiting"
    /\ key_stack # <<>>
    /\ LET top == key_stack[Len(key_stack)]
           type_ref == top.ref
       IN /\ top.pc = "enter"
          /\ IF type_ref.is_optional
             THEN ReturnFromCall(FALSE, <<"KeyMustBeNonOptional">>)
             ELSE IF type_ref.target = 0
             THEN ReturnFromCall(TRUE, <<>>)
             ELSE LET struct_def == key_types[type_ref.target] IN
                  IF struct_def.kind = "Struct"
                  THEN IF type_ref.target \notin compact_structs
                       THEN ReturnFromCall(FALSE, <<"StructKeyMustBeCompact">>)
                       ELSE IF struct_def.refers.form = "None"
                       THEN ReturnFromCall(TRUE, <<>>)
                       ELSE IF Len(key_stack) < MaxKeyDepth
                       THEN /\ key_stack' =
                                   Append([key_stack EXCEPT
                                              ![Len(key_stack)].pc = "member"],
                                          [ref |-> data_type(struct_def),
                                           pc |-> "enter"])
                            /\ key_result' = Nothing
                            /\ UNCHANGED key_reports
                       ELSE UNCHANGED <<key_stack, key_result, key_reports>>
                  ELSE ReturnFromCall(FALSE, <<"KeyTypeNotSupported">>)
          /\ key_stage' = IF StackExhausted(type_ref)
                          THEN "stack overflow" ELSE key_stage
    /\ UNCHANGED <<key_types, compact_structs, checked_key>>
    /\ key_steps' = key_steps + 1
    /\ Frame("keycheck")

\* The rest of the Types::Struct branch, once the call on the member has
\* returned: the errors for a member that is no key type, and the return.
check_struct_members_done ==
    /\ key_stage = "visiting"
    /\ key_stack # <<>>
    /\ key_stack[Len(key_stack)].pc = "member"
    /\ key_result # Nothing
    /\ IF key_result = Just(FALSE)
       THEN ReturnFromCall(FALSE, <<"KeyTypeNotSupported",
                                    "StructKeyContainsDisallowedType">>)
       ELSE ReturnFromCall(TRUE, <<>>)
    /\ UNCHANGED <<key_types, compact_structs, checked_key, key_stage>>
    /\ key_steps' = key_steps + 1
    /\ Frame("keycheck")

\* The return of validate_compilation_data, after the visit.
return_validated_data ==
    /\ key_stage = "visiting"
    /\ key_stack = <<>>
    /\ key_stage' = "returned"
    /\ UNCHANGED <<key_types, compact_structs, checked_key, key_stack,
                   key_result, key_reports>>
    /\ key_steps' = key_steps + 1
    /\ Frame("keycheck")

KeyCheckNext ==
    \/ validate_key_compilation_data
    \/ call_check_dictionary_key_type
    \/ check_struct_members_done
    \/ return_validated_data

(***************************************************************************)
(* The scope the parser carries through the definitions.                   *)
(*                                                                         *)
(* A written definition is a tree: a struct, a class or an exception with  *)
(* its data members, an enum with its enumerators, an interface with at    *)
(* most one operation, an operation with its return type and parameters,   *)
(* and a module with a scoped identifier and at most one definition in     *)
(* its body.  Members, enumerators and parameters are identified by their  *)
(* place 1, 2, ..; the unnamed single return member by 0.  A parser        *)
(* function takes ParserData::current_scope and the written definition     *)
(* and gives the node it constructs and the current scope it leaves,       *)
(* following the order in which match_nodes! runs the parsers of the       *)
(* children before the body of the matching arm.                           *)
(***************************************************************************)
\* The most data members, enumerators, parameters and return members of a
\* definition, and the most sibling definitions parsed one after another.
MaxParsedChildren == 2
MaxSiblings == 2

WrittenReturnTypes ==
    [form : {"void"}, elements : {0}]
        \cup [form : {"single"}, elements : {1}]
        \cup [form : {"tuple"}, elements : 1..MaxParsedChildren]

WrittenOperations ==
    [kind : {"Operation"}, identifier : {"op"},
     returns : WrittenReturnTypes, parameters : 0..MaxParsedChildren]

WrittenMemberContainers ==
    [kind : {"Struct"}, identifier : {"S"}, members : 0..MaxParsedChildren]
        \cup [kind : {"Class"}, identifier : {"C"},
              members : 0..MaxParsedChildren]
        \cup [kind : {"Exception"}, identifier : {"E"},
              members : 0..MaxParsedChildren]

WrittenEnums ==
    [kind : {"Enum"}, identifier : {"En"}, enumerators : 0..MaxParsedChildren]

WrittenInterfaces ==
    [kind : {"Interface"}, identifier : {"I"},
     operations : {<<>>} \cup {<<op>> : op \in WrittenOperations}]

WrittenLeaves == WrittenMemberContainers \cup WrittenEnums \cup WrittenInterfaces

\* The scoped identifiers A, A::B, A::B::A, ..
NestedIdentifier(n) == [i \in 1..n |-> IF i % 2 = 1 THEN "A" ELSE "B"]

WrittenModules ==
    [kind : {"Module"},
     identifier : {NestedIdentifier(n) : n \in 1..MaxModuleIdentifiers},
     contents : {<<>>} \cup {<<leaf>> : leaf \in WrittenLeaves}]

\* The places where sibling definitions are parsed: the top of the file,
\* the body of module M, and the body of interface I of module M.
FileTop == [module_scope |-> <<>>, parser_scope |-> <<>>]

InModule == [module_scope |-> <<"M">>, parser_scope |-> <<"M">>]

InInterface == [module_scope |-> <<"M">>, parser_scope |-> <<"M", "I">>]

\* data_member(members).. and enumerator_list: each child is constructed
\* with get_scope at its own position.
scoped_children(current, kind, n) ==
    [i \in 1..n |-> [kind |-> kind, identifier |-> i, scope |-> current]]

\* parameter_list: each parameter with get_scope at its position.
parameter_list(current, n, is_returned) ==
    [i \in 1..n |-> [kind |-> "Parameter", identifier |-> i,
                     is_returned |-> is_returned, scope |-> current]]

\* return_type: nothing for void, one unnamed member for a single type,
\* and the parameter list of return_tuple marked as returned.
return_type(current, returns) ==
    CASE returns.form = "void" -> <<>>
      [] returns.form = "single" ->
             <<[kind |-> "Parameter", identifier |-> 0,
                is_returned |-> TRUE, scope |-> current]>>
      [] OTHER -> parameter_list(current, returns.elements, TRUE)

\* operation with operation_start: `scope` is taken first; operation_start
\* runs return_type on its children and then pushes the identifier; the
\* parameters are parsed next; the arm pops the scope.
operation(current, written) ==
    LET scope == current
        returned == return_type(current, written.returns)
        started == push_scope(current, written.identifier, FALSE)
        parameters == parameter_list(started, written.parameters, FALSE)
    IN [scope |-> pop_scope(started),
        node |-> [kind |-> "Operation", identifier |-> written.identifier,
                  scope |-> scope, return_type |-> returned,
                  parameters |-> parameters]]

\* struct_def, class_def and exception_def with their _start: `scope` is
\* taken first, the start pushes the identifier, the members are parsed,
\* the arm pops the scope.
members_def(current, written) ==
    LET scope == current
        started == push_scope(current, written.identifier, FALSE)
    IN [scope |-> pop_scope(started),
        node |-> [kind |-> written.kind, identifier |-> written.identifier,
                  scope |-> scope,
                  members |-> scoped_children(started, "DataMember",
                                              written.members)]]

\* enum_def with enum_start: the arm with an enumerator_list and the arm
\* without one both pop the scope.
enum_def(current, written) ==
    LET scope == current
        started == push_scope(current, written.identifier, FALSE)
    IN IF written.enumerators > 0
       THEN [scope |-> pop_scope(started),
             node |-> [kind |-> "Enum", identifier |-> written.identifier,
                       scope |-> scope,
                       enumerators |-> scoped_children(started, "Enumerator",
                                                       written.enumerators)]]
       ELSE [scope |-> pop_scope(started),
             node |-> [kind |-> "Enum", identifier |-> written.identifier,
                       scope |-> scope, enumerators |-> <<>>]]

\* interface_def with interface_start: the operations are parsed one
\* after another, each from the scope the one before left.
interface_def(current, written) ==
    LET scope == current
        started == push_scope(current, written.identifier, FALSE)
        parsed == IF written.operations = <<>>
                  THEN [scope |-> started, nodes |-> <<>>]
                  ELSE LET r == operation(started, written.operations[1])
                       IN [scope |-> r.scope, nodes |-> <<r.node>>]
    IN [scope |-> pop_scope(parsed.scope),
        node |-> [kind |-> "Interface", identifier |-> written.identifier,
                  scope |-> scope, operations |-> parsed.nodes]]

\* definition: the parser of the kind that is written.
parsed_definition(current, written) ==
    CASE written.kind = "Enum" -> enum_def(current, written)
      [] written.kind = "Interface" -> interface_def(current, written)
      [] OTHER -> members_def(current, written)

\* module_def with module_start: a scope is pushed for each identifier,
\* the definitions of the body are parsed, the innermost module is
\* constructed after one pop and each enclosing one after one more.
nested_module_def(current, written) ==
    LET n == Len(written.identifier)
        started == PushAll(current, written.identifier, 1)
        parsed == IF written.contents = <<>>
                  THEN [scope |-> started, nodes |-> <<>>]
                  ELSE LET r == parsed_definition(started, written.contents[1])
                       IN [scope |-> r.scope, nodes |-> <<r.node>>]
        popped == pop_scope(parsed.scope)
        innermost ==
            AddDefinitions(
                NewModule(written.identifier[n], popped, <<>>, Nothing),
                parsed.nodes)
        r == EncloseModules(innermost, popped, written.identifier, n - 1)
    IN [scope |-> r.scope, node |-> r.module]

ParserScopeIdle ==
    /\ scope_at_start = FileTop
    /\ parser_data_scope = FileTop
    /\ last_input = Nothing
    /\ last_definition = Nothing
    /\ sibling_scopes = <<>>

ParserScopeInit ==
    /\ scope_at_start \in {FileTop, InModule, InInterface}
    /\ parser_data_scope = scope_at_start
    /\ last_input = Nothing
    /\ last_definition = Nothing
    /\ sibling_scopes = <<>>

\* main: module_def(modules).. at the top of the file.
main_module_def ==
    /\ scope_at_start = FileTop
    /\ Len(sibling_scopes) < MaxSiblings
    /\ \E written \in WrittenModules :
          LET r == nested_module_def(parser_data_scope, written)
          IN /\ parser_data_scope' = r.scope
             /\ last_input' = Just(written)
             /\ last_definition' = Just(r.node)
             /\ sibling_scopes' = Append(sibling_scopes, r.node.scope)
    /\ UNCHANGED scope_at_start
    /\ Frame("parserscope")

\* definition: [module_def(module_def)], in the body of a module.
definition_module_def ==
    /\ scope_at_start = InModule
    /\ Len(sibling_scopes) < MaxSiblings
    /\ \E written \in WrittenModules :
          LET r == nested_module_def(parser_data_scope, written)
          IN /\ parser_data_scope' = r.scope
             /\ last_input' = Just(written)
             /\ last_definition' = Just(r.node)
             /\ sibling_scopes' = Append(sibling_scopes, r.node.scope)
    /\ UNCHANGED scope_at_start
    /\ Frame("parserscope")

\* definition: [struct_def(struct_def)], [class_def(class_def)] and
\* [exception_def(exception_def)].
definition_members_def ==
    /\ scope_at_start = InModule
    /\ Len(sibling_scopes) < MaxSiblings
    /\ \E written \in WrittenMemberContainers :
          LET r == members_def(parser_data_scope, written)
          IN /\ parser_data_scope' = r.scope
             /\ last_input' = Just(written)
             /\ last_definition' = Just(r.node)
             /\ sibling_scopes' = Append(sibling_scopes, r.node.scope)
    /\ UNCHANGED scope_at_start
    /\ Frame("parserscope")

\* definition: [interface_def(interface_def)].
definition_interface_def ==
    /\ scope_at_start = InModule
    /\ Len(sibling_scopes) < MaxSiblings
    /\ \E written \in WrittenInterfaces :
          LET r == interface_def(parser_data_scope, written)
          IN /\ parser_data_scope' = r.scope
             /\ last_input' = Just(written)
             /\ last_definition' = Just(r.node)
             /\ sibling_scopes' = Append(sibling_scopes, r.node.scope)
    /\ UNCHANGED scope_at_start
    /\ Frame("parserscope")

\* definition: [enum_def(enum_def)].
definition_enum_def ==
    /\ scope_at_start = InModule
    /\ Len(sibling_scopes) < MaxSiblings
    /\ \E written \in WrittenEnums :
          LET r == enum_def(parser_data_scope, written)
          IN /\ parser_data_scope' = r.scope
             /\ last_input' = Just(written)
             /\ last_definition' = Just(r.node)
             /\ sibling_scopes' = Append(sibling_scopes, r.node.scope)
    /\ UNCHANGED scope_at_start
    /\ Frame("parserscope")

\* interface_def: operation(operations).., in the body of an interface.
interface_operation ==
    /\ scope_at_start = InInterface
    /\ Len(sibling_scopes) < MaxSiblings
    /\ \E written \in WrittenOperations :
          LET r == operation(parser_data_scope, written)
          IN /\ parser_data_scope' = r.scope
             /\ last_input' = Just(written)
             /\ last_definition' = Just(r.node)
             /\ sibling_scopes' = Append(sibling_scopes, r.node.scope)
    /\ UNCHANGED scope_at_start
    /\ Frame("parserscope")

ParserScopeNext ==
    \/ main_module_def
    \/ definition_module_def
    \/ definition_members_def
    \/ definition_interface_def
    \/ definition_enum_def
    \/ interface_operation

(***************************************************************************)
(* The specifications, one for each component.                             *)
(***************************************************************************)
\* The components other than c are idle.
Idle(c) ==
    /\ c # "reporter" => ReporterIdle
    /\ c \notin {"ast", "lookup"} => TablesIdle
    /\ c # "lookup" => LookupIdle
    /\ c # "identifiers" => IdentifiersIdle
    /\ c # "ast" => AstIdle
    /\ c # "dictionary" => DictionaryIdle
    /\ c # "encoding" => EncodingIdle
    /\ c # "cycles" => CyclesIdle
    /\ c # "preprocessor" => PreprocessorIdle
    /\ c # "enum" => EnumIdle
    /\ c # "tag" => TagIdle
    /\ c # "module" => ModuleIdle
    /\ c # "validation" => ValidationIdle
    /\ c # "container" => ContainerIdle
    /\ c # "attribute" => AttributeIdle
    /\ c # "slice_file" => SliceFileIdle
    /\ c # "type_ref" => TypeRefIdle
    /\ c # "downcast" => DowncastIdle
    /\ c # "reader" => ReaderIdle
    /\ c # "type_alias" => TypeAliasIdle
    /\ c # "mode" => ModeIdle
    /\ c # "keycheck" => KeyCheckIdle
    /\ c # "parserscope" => ParserScopeIdle

InitReporter == ReporterInit /\ Idle("reporter")

SpecReporter == InitReporter /\ [][ReporterNext]_vars

InitLookup == LookupInit /\ Idle("lookup")

SpecLookup == InitLookup /\ [][LookupNext]_vars

InitIdentifiers == IdentifiersInit /\ Idle("identifiers")

SpecIdentifiers == InitIdentifiers /\ [][IdentifiersNext]_vars

InitAst == AstInit /\ Idle("ast")

SpecAst == InitAst /\ [][AstNext]_vars

SpecAstTwice == InitAst /\ [][AstTwiceNext]_vars

InitDictionary == DictionaryInit /\ Idle("dictionary")

SpecDictionary == InitDictionary /\ [][DictionaryNext]_vars

InitEncoding == EncodingInit /\ Idle("encoding")

SpecEncoding == InitEncoding /\ [][EncodingNext]_vars

InitCycles == CyclesInit /\ Idle("cycles")

SpecCycles == InitCycles /\ [][CyclesNext]_vars

InitPreprocessor == PreprocessorInit /\ Idle("preprocessor")

SpecPreprocessor == InitPreprocessor /\ [][PreprocessorNext]_vars

InitEnum == EnumInit /\ Idle("enum")

SpecEnum == InitEnum /\ [][EnumNext]_vars

InitTag == TagInit /\ Idle("tag")

SpecTag == InitTag /\ [][TagNext]_vars

InitModule == ModuleInit /\ Idle("module")

SpecModule == InitModule /\ [][ModuleNext]_vars

InitValidation == ValidationInit /\ Idle("validation")

SpecValidation == InitValidation /\ [][ValidationNext]_vars

InitContainer == ContainerInit /\ Idle("container")

SpecContainer == InitContainer /\ [][ContainerNext]_vars

InitAttribute == AttributeInit /\ Idle("attribute")

SpecAttribute == InitAttribute /\ [][AttributeNext]_vars

InitSliceFile == SliceFileInit /\ Idle("slice_file")

SpecSliceFile == InitSliceFile /\ [][SliceFileNext]_vars

InitTypeRef == TypeRefInit /\ Idle("type_ref")

SpecTypeRef == InitTypeRef /\ [][TypeRefNext]_vars

InitDowncast == DowncastInit /\ Idle("downcast")

SpecDowncast == InitDowncast /\ [][DowncastNext]_vars

InitReader == ReaderInit /\ Idle("reader")

SpecReader == InitReader /\ [][ReaderNext]_vars

InitTypeAlias == TypeAliasInit /\ Idle("type_alias")

SpecTypeAlias == InitTypeAlias /\ [][TypeAliasNext]_vars

InitMode == ModeInit /\ Idle("mode")

SpecMode == InitMode /\ [][ModeNext]_vars

InitKeyCheck == KeyCheckInit /\ Idle("keycheck")

SpecKeyCheck == InitKeyCheck /\ [][KeyCheckNext]_vars

InitParserScope == ParserScopeInit /\ Idle("parserscope")

SpecParserScope == InitParserScope /\ [][ParserScopeNext]_vars

(***************************************************************************)
(* The claims.                                                             *)
(***************************************************************************)
\* C1: has_errors() is true exactly when an Error has been reported, or
\* warnings are treated as errors and a Warning has been reported; Notes do
\* not count, and get_state() is Err exactly when has_errors() is true.
C1_HasErrorsIffReported ==
    /\ has_errors <=>
          \/ \E i \in DOMAIN reported : reported[i].severity = "Error"
          \/ /\ treat_warnings_as_errors
             /\ \E i \in DOMAIN reported : reported[i].severity = "Warning"
    /\ (get_state = "Err") <=> has_errors
    /\ (\A i \in DOMAIN reported : reported[i].severity = "Note") => ~has_errors

\* A Warning and a Note have been reported and no Error: the result rests on
\* treat_warnings_as_errors alone.
C1_Witness ==
    /\ \E i \in DOMAIN reported : reported[i].severity = "Warning"
    /\ \E i \in DOMAIN reported : reported[i].severity = "Note"
    /\ \A i \in DOMAIN reported : reported[i].severity # "Error"
    /\ treat_warnings_as_errors
    /\ has_errors

\* C2: into_errors() is the sequence of the diagnostics reported, each once
\* and in the order of the calls (append_errors in the order of its
\* argument), and a step never alters, reorders or drops a diagnostic that
\* was accepted before it.
C2_InsertionPreservesOrder ==
    /\ [](into_errors = reported)
    /\ [][IsPrefix(errors, errors')]_vars

\* append_errors has just added two different diagnostics behind an earlier
\* one.
C2_Witness ==
    /\ lastCall = "append_errors"
    /\ Len(errors) = 3
    /\ errors[2] # errors[3]
    /\ errors[1] # errors[2]

\* The non-empty prefixes p of `parents` whose key p::name is in `table`.
Matches(table, parents, name) ==
    {n \in 1..Len(parents) : (SubSeq(parents, 1, n) \o name) \in DOMAIN table}

\* The table and the scope path a finished lookup has read.
LookupTable ==
    IF lookupCall = "lookup_type" THEN type_lookup_table
    ELSE entity_lookup_table

LookupParents ==
    IF lookupCall = "lookup_type" THEN lookupScope.module_scope
    ELSE lookupScope.parser_scope

\* C3: a relative lookup returns the entry of the deepest enclosing scope
\* whose key scope::name is in the table (lookup_type over module_scope in
\* the type table, lookup_entity over parser_scope in the entity table): an
\* outer scope's entry only when no inner scope has one.
C3_InnermostScopeWins ==
    (lookupCall # "none" /\ ~lookupName.absolute) =>
        LET M == Matches(LookupTable, LookupParents, lookupName.segments)
        IN /\ M # {} =>
                \E n \in M :
                    /\ \A k \in M : k <= n
                    /\ lookupResult =
                          Some(LookupTable[SubSeq(LookupParents, 1, n)
                                           \o lookupName.segments])
           /\ M = {} => lookupResult = None

\* lookup_type has found S in the inner of two enclosing modules that both
\* define it.
C3_Witness ==
    /\ lookupCall = "lookup_type"
    /\ ~lookupName.absolute
    /\ Cardinality(Matches(type_lookup_table, lookupScope.module_scope,
                           lookupName.segments)) = 2
    /\ lookupResult # None

\* The places in `ids` of the identifiers whose value is v.
Occurrences(ids, v) == {i \in DOMAIN ids : ids[i].value = v}

\* C6: for a value that occurs n times among the children of a container
\* check_for_redefinition reports n - 1 Redefinition errors, values compared
\* byte for byte; each error lies at a later occurrence and is followed by
\* the note that lies at the occurrence just before it in source order.
C6_RedefinitionPerRepeat ==
    idChecked =>
        LET Errs == {i \in DOMAIN idReports : idReports[i].kind = "Redefinition"}
        IN /\ \A v \in IdValues :
                 LET occ == Occurrences(identifiers, v)
                 IN Cardinality({i \in Errs : idReports[i].identifier = v})
                       = IF occ = {} THEN 0 ELSE Cardinality(occ) - 1
           /\ Len(idReports) = 2 * Cardinality(Errs)
           /\ \A i \in Errs :
                 LET occ == Occurrences(identifiers, idReports[i].identifier)
                     before == {p \in occ : p < idReports[i].span}
                 IN /\ idReports[i].span \in occ
                    /\ before # {}
                    /\ i + 1 \in DOMAIN idReports
                    /\ idReports[i + 1].kind = "Note"
                    /\ idReports[i + 1].identifier = idReports[i].identifier
                    /\ idReports[i + 1].span \in before
                    /\ \A p \in before : p <= idReports[i + 1].span
           /\ \A i, j \in Errs : idReports[i].span = idReports[j].span => i = j

\* "a" is defined three times with "A" between two of them: two errors for
\* "a", none for "A".
C6_Witness ==
    /\ idChecked
    /\ Cardinality(Occurrences(identifiers, "a")) = 3
    /\ Cardinality(Occurrences(identifiers, "A")) = 1
    /\ identifiers[2].value = "A"
    /\ Len(idReports) = 4

\* C4: an entry of the type table is never replaced without a diagnostic:
\* whenever add_module has bound the key of an earlier type to a later one,
\* a diagnostic located at the later definition reports the collision.
C4_NoSilentOverwrite ==
    \A r \in replaced :
        r.table = "type" =>
            \E i \in DOMAIN diagnostics : diagnostics[i].span = r.new

\* The definitions of the module `key`, over all its openings, that share
\* the value v, as places in the AST.
SameName(key, v) ==
    {n \in DOMAIN ast : /\ ast[n].parent # 0
                        /\ ast[n].scope = key
                        /\ ast[n].value = v}

\* d0 and d1 are definitions of one module with one identifier, d0 before
\* d1 and no definition of that identifier between them.
Neighbours(d0, d1) ==
    /\ d0 < d1
    /\ d1 \in SameName(ast[d0].scope, ast[d0].value)
    /\ d0 \in SameName(ast[d0].scope, ast[d0].value)
    /\ \A n \in SameName(ast[d0].scope, ast[d0].value) : ~(d0 < n /\ n < d1)

ReportsOf(d0, d1) ==
    {i \in DOMAIN diagnostics : diagnostics[i].span = d1 /\ diagnostics[i].note = d0}

\* C7: the openings of one fully-scoped module are checked as one
\* container: two definitions with one identifier, also in different
\* openings, give one Redefinition error at the later with its note at the
\* earlier, unless both are modules, and nothing else is reported.
C7_ReopenedModulesMerged ==
    stage = "validated" =>
        /\ \A d0, d1 \in DOMAIN ast :
              Neighbours(d0, d1) =>
                  Cardinality(ReportsOf(d0, d1)) =
                      IF ast[d0].kind = "Module" /\ ast[d1].kind = "Module"
                      THEN 0 ELSE 1
        /\ \A i \in DOMAIN diagnostics :
              /\ diagnostics[i].kind = "Redefinition"
              /\ diagnostics[i].span \in DOMAIN ast
              /\ diagnostics[i].note \in DOMAIN ast
              /\ Neighbours(diagnostics[i].note, diagnostics[i].span)
              /\ diagnostics[i].identifier = ast[diagnostics[i].span].value

\* Two openings of A::S each define a struct S, and two openings of A each
\* hold the module S: one error, for the structs.
C7_Witness ==
    /\ stage = "validated"
    /\ Len(diagnostics) = 1
    /\ ast[diagnostics[1].span].parent # ast[diagnostics[1].note].parent
    /\ ast[diagnostics[1].span].scope = <<"A", "S">>
    /\ ast[diagnostics[1].span].kind = "Struct"

\* The key types the claim accepts: non-optional, and bool, an integer
\* primitive, string, an enum, a custom type, or a compact struct whose
\* members all have accepted types.
RECURSIVE AcceptedKey(_)
AcceptedKey(type_ref) ==
    /\ ~type_ref.is_optional
    /\ \/ /\ type_ref.definition.type = "Primitive"
          /\ type_ref.definition.primitive \in
                 IntegerPrimitives \cup {"bool", "string"}
       \/ type_ref.definition.type \in {"Enum", "CustomType"}
       \/ /\ type_ref.definition.type = "Struct"
          /\ type_ref.definition.is_compact
          /\ \A i \in DOMAIN type_ref.definition.members :
                AcceptedKey(type_ref.definition.members[i])

\* C5: check_dictionary_key_type returns true and reports nothing exactly
\* for the accepted key types, and returns false with at least one error for
\* every other key type.
C5_KeyAcceptedIffAllowed ==
    keyResult # <<>> =>
        IF AcceptedKey(key_type)
        THEN keyResult = <<TRUE>> /\ keyReports = <<>>
        ELSE keyResult = <<FALSE>> /\ keyReports # <<>>

\* The supported sets the claim names.
C8_Supported(primitive) ==
    IF primitive \in {"int8", "uint16", "uint32", "uint64", "varint32",
                      "varuint32", "varint62", "varuint62"}
    THEN {"Slice2"}
    ELSE IF primitive = "AnyClass" THEN {"Slice1"}
    ELSE IF primitive \in {"bool", "uint8", "int16", "int32", "int64",
                           "float32", "float64", "string"}
    THEN {"Slice1", "Slice2"}
    ELSE {}

ReportsAt(i) == {j \in DOMAIN encodingReports : encodingReports[j].span = i}

\* C8: after the patch, a field of the compact struct whose type is the
\* primitive P has exactly one error, UnsupportedType{P, M}, when the mode M
\* of the file is not in the supported set of P, and no diagnostic when it
\* is.
C8_UnsupportedPrimitivePerMode ==
    struct_supported_encodings # None =>
        \A i \in DOMAIN fields :
            ~fields[i].is_optional =>
                IF compilation_mode \in C8_Supported(fields[i].definition.primitive)
                THEN ReportsAt(i) = {}
                ELSE /\ Cardinality(ReportsAt(i)) = 1
                     /\ \A j \in ReportsAt(i) :
                           /\ encodingReports[j].kind = "UnsupportedType"
                           /\ encodingReports[j].type_kind =
                                  fields[i].definition.primitive
                           /\ encodingReports[j].encoding = compilation_mode

\* A Slice1 file whose struct has a uint32 field and a bool field: one
\* error, for the uint32.
C8_Witness ==
    /\ struct_supported_encodings # None
    /\ compilation_mode = "Slice1"
    /\ Len(fields) = 2
    /\ ~fields[1].is_optional /\ fields[1].definition.primitive = "uint32"
    /\ ~fields[2].is_optional /\ fields[2].definition.primitive = "bool"
    /\ Len(encodingReports) = 1
    /\ encodingReports[1].span = 1

\* a contains b directly: a is a struct and b the type of its field, or a
\* is the sequence, the alias or the dictionary in the field of a type and
\* b its element, its target, its key or its value.
Contains(a, b) ==
    LET def == types[a[2]] IN
    IF a[1] = "T"
    THEN /\ def.kind = "Struct"
         /\ \/ def.refers.form = "Named" /\ b = <<"T", def.refers.target>>
            \/ /\ def.refers.form \in {"Sequence", "TypeAlias", "Dictionary"}
               /\ b = <<"F", a[2]>>
    ELSE /\ b[1] = "T"
         /\ \/ /\ def.refers.form \in {"Sequence", "TypeAlias"}
               /\ b[2] = def.refers.target
            \/ /\ def.refers.form = "Dictionary"
               /\ b[2] \in {def.refers.key, def.refers.value}

\* The nodes a contains transitively, in at most k more steps from `seen`.
RECURSIVE ContainedWithin(_, _)
ContainedWithin(seen, k) ==
    IF k = 0 THEN seen
    ELSE ContainedWithin(
             seen \cup {b \in GraphNodes : \E a \in seen : Contains(a, b)},
             k - 1)

ContainsTransitively(a, b) ==
    b \in ContainedWithin({c \in GraphNodes : Contains(a, c)},
                          Cardinality(GraphNodes))

\* The participants of a report form a cycle of the containment.
IsContainmentCycle(cycle) ==
    /\ cycle # <<>>
    /\ \A i, j \in DOMAIN cycle : i # j => cycle[i] # cycle[j]
    /\ \A i \in DOMAIN cycle :
          Contains(cycle[i], cycle[IF i = Len(cycle) THEN 1 ELSE i + 1])

RECURSIVE RegionLive(_, _)
RegionLive(i, j) ==
    IF j = i THEN lines[i].symbol \in definitions
    ELSE IF OpenDepth(lines, i, j - 1) = 0 /\ lines[j].kind = "elif"
    THEN lines[j].symbol \in definitions
    ELSE IF OpenDepth(lines, i, j - 1) = 0 /\ lines[j].kind = "else"
    THEN ~RegionLive(i, j - 1)
    ELSE RegionLive(i, j - 1)

\* Every conditional region that encloses line p is live.
EnclosingRegionsLive(p) ==
    \A i \in 1..(p - 1) : Encloses(lines, i, p) => RegionLive(i, p - 1)

\* The directives of the file match: no `endif` without its `if`, no
\* region open at the end, no unknown directive.
WellFormed ==
    /\ \A j \in DOMAIN lines :
          /\ lines[j].kind # "unknown"
          /\ lines[j].kind = "endif" => \E i \in DOMAIN lines : Encloses(lines, i, j)
    /\ \A i \in DOMAIN lines : ~Encloses(lines, i, Len(lines) + 1)

\* C10: the tokens passed on are exactly the tokens all of whose enclosing
\* conditional regions are live, in the order of the file and with their
\* spans; a token outside every conditional is passed on; and a file whose
\* directives match gives no diagnostic, whatever it omits.
C10_EmittedIffEnclosingLive ==
    /\ \A p \in 1..(position - 1) :
          lines[p].kind = "token" =>
              ((\E k \in DOMAIN emitted : emitted[k] = p)
                  <=> EnclosingRegionsLive(p))
    /\ \A k \in DOMAIN emitted :
          /\ emitted[k] < position
          /\ lines[emitted[k]].kind = "token"
          /\ \A m \in DOMAIN emitted : k < m => emitted[k] < emitted[m]
    /\ (atEnd /\ WellFormed) => ppErrors = <<>>

\* With nothing defined: the token between `#if Foo` and its `#endif` is
\* omitted, the token after them is passed on, and nothing is reported.
C10_Witness ==
    /\ atEnd
    /\ definitions = {}
    /\ Len(lines) = 4
    /\ lines[1] = [kind |-> "if", symbol |-> "Foo"]
    /\ lines[2].kind = "token"
    /\ lines[3].kind = "endif"
    /\ lines[4].kind = "token"
    /\ emitted = <<4>>
    /\ ppErrors = <<>>

\* The width in bits of an underlying type and whether it is signed.
WidthOf(t) == IF t = "int16" THEN 16 ELSE 8

IsSigned(t) == t \in {"int8", "int16"}

\* The residue of an i128 modulo 2^w: i128::MAX is 2^127 - 1 and i128::MIN
\* is -2^127.
Residue(x, w) ==
    (CASE x.base = "i128::MAX" -> (2 ^ w) - 1 + x.offset
       [] x.base = "i128::MIN" -> x.offset
       [] OTHER -> x.offset) % (2 ^ w)

\* x + 1 wrapped around at the width of the underlying type t.
SuccessorAtWidth(x, t) ==
    LET r == (Residue(x, WidthOf(t)) + 1) % (2 ^ WidthOf(t))
    IN IF IsSigned(t) /\ r >= 2 ^ (WidthOf(t) - 1)
       THEN I128("0", r - 2 ^ WidthOf(t))
       ELSE I128("0", r)

\* C11: in the enum constructed last, an implicit value is 0 for the first
\* enumerator and, for any other, the value of the enumerator before it
\* plus 1, wrapped around at the width of the underlying type of the enum.
C11_ImplicitValueWrapsAtWidth ==
    (last_enum # Nothing /\ last_enum[1].underlying # Nothing) =>
        \A i \in DOMAIN last_enum[1].enumerators :
            last_enum[1].enumerators[i].kind = "Implicit" =>
                last_enum[1].enumerators[i].value =
                    IF i = 1 THEN I128("0", 0)
                    ELSE SuccessorAtWidth(last_enum[1].enumerators[i - 1].value,
                                          last_enum[1].underlying[1])

\* C12: a tag or a compact id has its out-of-bounds diagnostic exactly when
\* the integer written lies outside [0, INT32_MAX]; the value stored is then
\* the dummy 0, and every value stored lies in [0, INT32_MAX].
C12_OutOfBoundsGivesDummyZero ==
    \A k \in DOMAIN parsed_integers :
        /\ (\E d \in DOMAIN parser_diagnostics :
               /\ parser_diagnostics[d].span = k
               /\ parser_diagnostics[d].kind = parsed_integers[k].error)
              <=> ~in_tag_range(parsed_integers[k].given)
        /\ ~in_tag_range(parsed_integers[k].given) =>
               parsed_integers[k].value = Wide("0", 0)
        /\ in_tag_range(parsed_integers[k].value)

\* The scope before the declaration extended by the first k identifiers of
\* the declaration.
RECURSIVE ExtendedScope(_)
ExtendedScope(k) ==
    IF k = 0 THEN scope_before
    ELSE [module_scope |->
              Append(ExtendedScope(k - 1).module_scope, module_decl.identifier[k]),
          parser_scope |->
              Append(ExtendedScope(k - 1).parser_scope, module_decl.identifier[k])]

\* `module` is the k-th module of the chain the declaration stands for.
RECURSIVE IsChainFrom(_, _)
IsChainFrom(module, k) ==
    /\ module.identifier = module_decl.identifier[k]
    /\ module.scope = ExtendedScope(k - 1)
    /\ IF k < Len(module_decl.identifier)
       THEN /\ module.attributes = <<>>
            /\ module.comment = Nothing
            /\ Len(module.contents) = 1
            /\ module.contents[1].kind = "Module"
            /\ IsChainFrom(module.contents[1].module, k + 1)
       ELSE /\ module.attributes = module_decl.attributes
            /\ module.comment = module_decl.comment
            /\ Len(module.contents) = Len(module_decl.definitions)
            /\ \A i \in DOMAIN module.contents :
                  /\ module.contents[i].kind = "Struct"
                  /\ module.contents[i].identifier = module_decl.definitions[i]

\* C13: module_def returns the chain of single-identifier modules: every
\* outer module holds the next inner module and nothing else, without
\* attributes and comment; the innermost holds the definitions, the
\* attributes and the comment; the scope of each module is the scope before
\* the declaration extended by the identifiers of the modules around it.
C13_NestedModuleChain ==
    module_phase = "done" =>
        /\ module_result # Nothing
        /\ IsChainFrom(module_result[1], 1)

\* `[deprecated] module A::B::A { S T }` met in the body of a module M.
C13_Witness ==
    /\ module_phase = "done"
    /\ module_decl.identifier = <<"A", "B", "A">>
    /\ module_decl.attributes # <<>>
    /\ Len(module_decl.definitions) = 2
    /\ scope_before.module_scope = <<"M">>
    /\ module_result[1].contents[1].module.contents[1].module.scope.module_scope
           = <<"M", "A", "B">>

\* The place of a validator in the order attribute, comments, dictionary,
\* enum, identifier, miscellaneous, sequence, tag.
ChainPlace(v) ==
    CASE v = "attribute" -> 1 [] v = "comments" -> 2 [] v = "dictionary" -> 3
      [] v = "enum" -> 4 [] v = "identifier" -> 5 [] v = "miscellaneous" -> 6
      [] v = "sequence" -> 7 [] v = "tag" -> 8

ValidatorDiagnostics ==
    {i \in DOMAIN diagnostic_reporter :
        diagnostic_reporter[i].stage \notin {"parser", "cycle_detection"}}

\* C14: the diagnostics of the validators on one node stand in the order
\* of the chain, and all the diagnostics of a file given earlier stand
\* before those of a file given later.
C14_FixedValidatorOrder ==
    \A i, j \in ValidatorDiagnostics :
        i < j =>
            /\ diagnostic_reporter[i].file <= diagnostic_reporter[j].file
            /\ (/\ diagnostic_reporter[i].file = diagnostic_reporter[j].file
                /\ diagnostic_reporter[i].node = diagnostic_reporter[j].node)
                   => ChainPlace(diagnostic_reporter[i].stage)
                          < ChainPlace(diagnostic_reporter[j].stage)

\* C16: validate_compilation_data has skipped the validators and the check
\* of the module contents exactly when cycle detection found a cycle: with
\* no cycle every file was visited and the module contents were checked,
\* whatever the reporter held before.
C16_ShortCircuitOnlyOnCycle ==
    validation_stage = "returned" =>
        IF has_cycle
        THEN visited_files = <<>> /\ ~contents_checked
        ELSE Range(visited_files) = DOMAIN data_files /\ contents_checked

\* C15: a second run of the validation on the same input gives the same
\* diagnostics in the same order as the first.
C15_DiagnosticOrderDeterministic ==
    stage = "validated again" => diagnostics = first_run[1]

\* The names of the child lists of the container that was constructed.
ChildListsOf == DOMAIN arguments[1]

\* The list of weak pointers is the inverse of the parent handles of the
\* children given: as many pointers as children, no pointer twice, the
\* i-th pointer leads to the i-th child given, and that child has the
\* container as its parent.
ConsistentInverses(given, pointers, parent_ptr) ==
    /\ Len(pointers) = Len(given)
    /\ \A i, j \in DOMAIN pointers : pointers[i] = pointers[j] => i = j
    /\ \A i \in DOMAIN pointers :
          /\ pointers[i] \in DOMAIN node_ast
          /\ node_ast[pointers[i]].object = given[i].object
          /\ node_ast[pointers[i]].identifier = given[i].identifier
          /\ node_ast[pointers[i]].parent # create_uninitialized
          /\ node_ast[pointers[i]].parent = Just(parent_ptr)

\* C17: after a container has been constructed, every child given to the
\* constructor is in the child list of the container exactly once and in
\* source order, every child of the list has the container as its parent,
\* and no child is left with an uninitialized parent; for an operation
\* this holds for the parameters and for the return members.
C17_ParentAndChildrenInverse ==
    container # Nothing =>
        \A list \in ChildListsOf :
            ConsistentInverses(arguments[1][list], container[1][list],
                               container[1].kind)

\* An operation constructed with two parameters and a return member, after
\* an earlier element of the AST.
C17_Witness ==
    /\ container # Nothing
    /\ container[1].kind = "Operation"
    /\ Len(arguments[1].parameters) = 2
    /\ Len(arguments[1].return_type) >= 1
    /\ node_ast[1].object < 0

\* The letter in lower case.
LowerCase(character) == IF character = "W" THEN "w" ELSE character

\* The two strings are the same but for the case of their letters.
SameButForCase(s, t) ==
    /\ Len(s) = Len(t)
    /\ \A i \in 1..Len(s) : LowerCase(s[i]) = LowerCase(t[i])

DiffersOnlyByCase(arg) ==
    /\ arg \notin all_codes
    /\ \E code \in all_codes : SameButForCase(arg, code)

\* The places of the arguments that are not warning codes, in their order.
RECURSIVE InvalidPlacesFrom(_)
InvalidPlacesFrom(i) ==
    IF i > Len(attribute_arguments)
    THEN <<>>
    ELSE (IF attribute_arguments[i] \in all_codes THEN <<>> ELSE <<i>>)
             \o InvalidPlacesFrom(i + 1)

\* C18: for each argument of an allow attribute that is not exactly a
\* warning code exactly one InvalidWarningCode error is reported; the error
\* has a 'did you mean' note exactly when the argument differs from a
\* warning code by the case of its letters only; a warning code reports
\* nothing.
C18_InvalidWarningCodes ==
    (attribute_kind # Nothing /\ directive = "allow") =>
        LET invalid == InvalidPlacesFrom(1)
        IN /\ Len(attribute_reports) = Len(invalid)
           /\ \A k \in DOMAIN invalid :
                 LET arg == attribute_arguments[invalid[k]]
                     reported_error == attribute_reports[k]
                 IN /\ reported_error.kind = "InvalidWarningCode"
                    /\ reported_error.code = arg
                    /\ reported_error.notes # <<>> <=> DiffersOnlyByCase(arg)

\* An attribute with a wrongly cased code and an unknown code.
C18_Witness ==
    /\ attribute_kind # Nothing
    /\ directive = "allow"
    /\ attribute_arguments = <<<<"w", "1">>, <<"1", "1">>>>
    /\ Len(attribute_reports) = 2

\* The number of bytes of a character in UTF-8.
BytesOf(character) == IF character = "e'" THEN 2 ELSE 1

\* The byte offset of the place i of the text.
RECURSIVE ByteOffset(_, _)
ByteOffset(text, i) ==
    IF i <= 1 THEN 0 ELSE ByteOffset(text, i - 1) + BytesOf(text[i - 1])

\* The character at place i ends a line: it is a '\n', or a '\r' that no
\* '\n' follows ('\r\n' is one terminator, which ends with its '\n').
EndsLine(text, i) ==
    \/ text[i] = "LF"
    \/ /\ text[i] = "CR"
       /\ ~(i < Len(text) /\ text[i + 1] = "LF")

\* The byte offsets just after the line terminators from place i on.
RECURSIVE LineStartsFrom(_, _)
LineStartsFrom(text, i) ==
    IF i > Len(text)
    THEN <<>>
    ELSE (IF EndsLine(text, i) THEN <<ByteOffset(text, i + 1)>> ELSE <<>>)
             \o LineStartsFrom(text, i + 1)

\* C19: the line positions of a file are the byte offsets at which its
\* lines start: 0, and then the offset just after every line terminator
\* ('\n', '\r\n' as one terminator, or a bare '\r'), for every text, and
\* they are strictly increasing.
C19_LinePositionsAreByteOffsets ==
    line_positions # <<>> =>
        /\ line_positions = <<0>> \o LineStartsFrom(raw_text, 1)
        /\ \A i, j \in DOMAIN line_positions :
              i < j => line_positions[i] < line_positions[j]

\* The definition is a class or the primitive AnyClass.
IsClassType(referenced) ==
    \/ referenced.type = "Class"
    \/ referenced.type = "Primitive" /\ referenced.primitive = "AnyClass"

\* C20: TypeRef::supported_encodings is the set of the definition without
\* Slice1 exactly when the reference is optional and the definition is
\* neither a primitive nor a class; for the other references (not
\* optional, optional primitives, optional classes and AnyClass) it is the
\* set of the definition unchanged.
C20_Slice1DisabledForOptionalNonClass ==
    reference_encodings # Nothing =>
        LET referenced == referenced_type.definition
            of_definition == definition_supported_encodings(referenced)
        IN reference_encodings[1] =
               IF /\ referenced_type.is_optional
                  /\ referenced.type # "Primitive"
                  /\ ~IsClassType(referenced)
               THEN of_definition \ {"Slice1"}
               ELSE of_definition

\* The reference is patched to a definition that is not of the kind U.
WrongKind(type_ref, U) ==
    type_ref.definition # Nothing /\ type_ref.definition[1] # U

\* C21: a constructor given a base type or an underlying type that is
\* patched to a definition of the wrong kind reports a diagnostic and
\* returns; a construction never panics, and a reference that is not
\* patched passes the downcast unchanged.
C21_WrongKindReportedNotPanicked ==
    construction # Nothing =>
        LET ended == construction[1]
        IN /\ ended.outcome = "returned"
           /\ (\E i \in DOMAIN base_types : WrongKind(base_types[i], ended.U))
                 => ended.reported # <<>>
           /\ \A i \in DOMAIN base_types :
                 base_types[i].definition = Nothing
                     => ended.bases[i] = base_types[i]

\* C22: a reader of the definition that is given a type reference the
\* patcher has left unpatched reports a diagnostic or skips the reference,
\* and never aborts.
C22_UnpatchedTolerated ==
    (read_outcome # Nothing /\ read_ref.definition = Nothing) =>
        /\ read_outcome[1].outcome # "panicked"
        /\ \/ read_outcome[1].outcome = "skipped"
           \/ read_outcome[1].reported # <<>>

\* C23: a relative lookup goes up to the global scope: when no key
\* prefix::name with a prefix of the scope that is not empty is in the
\* table, the lookup returns the entry under the bare key name if there is
\* one, and None only when there is none.
C23_RelativeLookupReachesGlobalScope ==
    (/\ lookupCall # "none"
     /\ ~lookupName.absolute
     /\ Matches(LookupTable, LookupParents, lookupName.segments) = {}) =>
        IF lookupName.segments \in DOMAIN LookupTable
        THEN /\ lookupResult \notin STRING
             /\ lookupResult = Some(LookupTable[lookupName.segments])
        ELSE lookupResult \in STRING

\* The number of the dictionaries with a float32 key that are reachable
\* from the type through the elements of sequences and the values of
\* dictionaries, the type itself included.
RECURSIVE UnsupportedKeys(_)
UnsupportedKeys(referenced) ==
    CASE referenced.type = "Sequence" ->
             UnsupportedKeys(referenced.element_type.definition)
      [] referenced.type = "Dictionary" ->
             (IF referenced.key_type.definition.primitive = "float32"
              THEN 1 ELSE 0)
                 + UnsupportedKeys(referenced.value_type.definition)
      [] OTHER -> 0

\* C24: every dictionary reachable from a validated type alias through the
\* elements of sequences and the values of dictionaries has its key
\* checked: there is one KeyTypeNotSupported error for each of them whose
\* key is a float32, and no other report.
C24_NestedDictionaryKeysChecked ==
    type_alias_visited =>
        /\ Len(type_alias_reports) =
               UnsupportedKeys(type_alias.underlying.definition)
        /\ \A i \in DOMAIN type_alias_reports :
               type_alias_reports[i].kind = "KeyTypeNotSupported"

\* C25: the Redefinition errors of one container are emitted in source
\* order: an error emitted earlier lies at an identifier that stands
\* earlier in the source than the identifier of an error emitted later.
C25_RedefinitionsInSourceOrder ==
    idChecked =>
        \A i, j \in DOMAIN idReports :
            (/\ i < j
             /\ idReports[i].kind = "Redefinition"
             /\ idReports[j].kind = "Redefinition")
                => idReports[i].span < idReports[j].span

\* C26: the attribute returned is the unknown attribute, with the
\* directive and the arguments as they were written, whenever an error was
\* reported for the arguments of a directive that is known; a typed kind
\* is returned only when nothing was reported; and a directive that is
\* not known gives the unknown attribute and no diagnostic.
C26_OtherWheneverErrorReported ==
    attribute_kind # Nothing =>
        /\ attribute_reports # <<>> =>
               attribute_kind[1] = [kind |-> "Other", directive |-> directive,
                                    arguments |-> attribute_arguments]
        /\ attribute_kind[1].kind # "Other" => attribute_reports = <<>>
        /\ directive \notin {"compress", "oneway", "deprecated", "format",
                             "allow"}
               => /\ attribute_kind[1].kind = "Other"
                  /\ attribute_reports = <<>>

\* The MultipleCompilationModes errors among the diagnostics of the file.
MultipleModes ==
    {i \in DOMAIN file_diagnostics :
        file_diagnostics[i].kind = "MultipleCompilationModes"}

\* C27: every mode declaration of a file after the first gives exactly one
\* MultipleCompilationModes error, whose span is that later declaration
\* and whose note lies at the declaration before it; a file with one
\* declaration gives none.
C27_OneErrorAtEachLaterMode ==
    /\ Cardinality(MultipleModes) =
           IF declarations_handled = 0 THEN 0 ELSE declarations_handled - 1
    /\ \A k \in 2..declarations_handled :
           \E i \in MultipleModes :
               /\ file_diagnostics[i].span = k
               /\ file_diagnostics[i].notes = <<Just(k - 1)>>

\* The classes of the program that refer to themselves or to each other.
ClassesReferToClasses ==
    \E i \in TypeIds :
        /\ key_types[i].kind = "Class"
        /\ key_types[i].refers.form = "Named"
        /\ key_types[key_types[i].refers.target].kind = "Class"

\* C28: validation terminates: validate_compilation_data, with the
\* recursive check of the dictionary key over the fields of compact
\* structs, takes a bounded number of steps, its recursion never runs
\* without end and a call that waits for the check of a member always
\* gets its answer, whether the cycle detection stopped it or not, and
\* also when classes refer to themselves or to each other.
C28_ValidationTerminates ==
    /\ key_steps <= 2 * MaxKeyDepth + 1
    /\ key_stage # "stack overflow"
    /\ (key_stage = "visiting" /\ key_stack # <<>>) =>
           \/ key_stack[Len(key_stack)].pc = "enter"
           \/ key_result # Nothing

\* The check went through a compact struct into a class that refers to a
\* class, and validation has returned.
C28_Witness ==
    /\ key_stage = "returned"
    /\ ClassesReferToClasses
    /\ ~checked_key.is_optional
    /\ checked_key.target \in compact_structs
    /\ key_types[checked_key.target].refers.form = "Named"
    /\ key_types[key_types[checked_key.target].refers.target].kind = "Class"
    /\ "StructKeyContainsDisallowedType" \in Range(key_reports)

\* The return members and the parameters of the operation parsed last.
OperationMembers ==
    Range(last_definition[1].return_type)
        \cup Range(last_definition[1].parameters)

\* C29: the parameters and the return members of one operation all have
\* the same scope: the scope of the operation extended by the identifier
\* of the operation.
C29_ReturnMembersInOperationScope ==
    (/\ scope_at_start = InInterface
     /\ last_definition # Nothing) =>
        \A m \in OperationMembers :
            m.scope = push_scope(last_definition[1].scope,
                                 last_definition[1].identifier, FALSE)

====
